---- MODULE Spec2Model ----
(***************************************************************************)
(* A model of the paging core of the kernel: the page-table entry layout   *)
(* (cpu/paging/model.rs), the address space and its mapping operations     *)
(* (cpu/paging/address_space.rs) and the boot bump allocator that backs    *)
(* the context used while the kernel's address space is built              *)
(* (utility/init_allocator.rs, cpu/paging/mod.rs).                         *)
(* The module also models the physical frame allocator                     *)
(* (state/allocator.rs, specification SpecFrames) and the bump allocator    *)
(* called with arbitrary layouts (specification SpecBump).                  *)
(*                                                                         *)
(* Physical memory is a map from 4 KiB frames to 1024-entry tables of      *)
(* 32-bit words.  It is kept sparse: a frame nobody has written holds the  *)
(* word `garbage` in every entry (whatever the RAM held at power-on), and  *)
(* a table keeps the entries written since it was last filled.             *)
(***************************************************************************)
EXTENDS Integers, Naturals, Sequences, FiniteSets, TLC

VARIABLES
    mem,        \* physical memory: frame address -> [default, ent]
    garbage,    \* the word every never-written entry of RAM holds
    root,       \* AddressSpace::root
    top,        \* InitAllocator::top
    base,       \* InitAllocator::base
    overflow_checks,  \* build profile: arithmetic overflow panics (debug) or wraps
    phase,      \* "boot" before AddressSpace::new, "ready", "failed", "halted"
    calls,      \* number of Context::allocate calls made so far
    nops,       \* number of mapping calls made so far
    last,       \* the last mapping call and its result
    ok4k,       \* the map_4kib calls that returned Ok: [virt, phys, fresh]
    ok4m,       \* the map_4mib calls that returned Ok: [virt, phys]
    pages,      \* state::Allocator::pages, the backing array: index -> u32
    len,        \* state::Allocator::len
    cap,        \* pages.len() when the Allocator was created
    flog,       \* the calls made on the Allocator and their results
    top0,       \* InitAllocator::top when the InitAllocator was created
    blast,      \* the last try_allocate_raw call and its result
    bcalls,     \* number of try_allocate_raw calls made so far
    bused,      \* the bytes try_allocate_raw has handed out so far
    ipc,        \* paging::init: the statement it stands before
    upper_bound,     \* paging::init: its argument
    page_directory,  \* paging::init: its local variable
    cr3,        \* the CPU's page directory base register
    cr4_pse,    \* CR4.PSE (bit 4): 4 MiB pages enabled
    cr0_pg,     \* CR0.PG (bit 31): paging enabled
    mm_src,     \* the multiboot memory map entries converted so far
    memory_map, \* SystemInfo::memory_map, the converted entries
    raw,        \* Mutex::raw: 0 when unlocked, else who locked it
    debug_assertions,  \* build profile: RawMutex keeps the caller's Location
    guards,     \* the contexts that hold a MutexGuard
    mlog,       \* the calls made on the Mutex and their results
    ostate,     \* OnceCell::state
    ovalue,     \* OnceCell::value (0: never written)
    ocall,      \* per context, the OnceCell call it is in and where it stands
    olast,      \* the OnceCell call that returned last, and its result
    ocount,     \* number of OnceCell calls started so far
    single_core,     \* contexts are interrupt handlers nested on one core
    epc,        \* entry_point2: the statement it stands before
    interrupts, \* the CPU's interrupt flag
    scancodes,  \* Terminal::scancode_buffer: how many scancodes it holds
    isr,        \* the PIC holds IRQ1 in service: no end-of-interrupt yet
    estop,      \* why entry_point2 stopped, "none" while it runs
    cmdline,    \* Terminal::cmdline, a sequence of characters
    cmdline_cursor,  \* Terminal::cmdline_cursor
    scancode_buffer, \* Terminal::scancode_buffer, a sequence of scancodes
    layout,     \* Terminal::layout, the Qwerty state machine
    press,      \* per lock key: -1 when it is up, else the number of times
                \* its modifier was toggled since its make code
    tlast,      \* the last call made on the terminal and its result
    tcalls,     \* number of calls made on the terminal so far
    rflags_interrupt, \* RFlags::INTERRUPT, the interrupt flag of the CPU
    sections,   \* live results of without_interrupts and interrupt frames,
                \* innermost last
    cslast,     \* the last critical-section step and what it returned
    cscalls     \* number of critical-section steps so far

pagingVars == <<mem, garbage, root, top, base, overflow_checks, phase, calls,
                nops, last, ok4k, ok4m>>
frameVars == <<pages, len, cap, flog>>
bumpVars == <<top0, blast, bcalls, bused>>
initVars == <<ipc, upper_bound, page_directory, cr3, cr4_pse, cr0_pg>>
memMapVars == <<mm_src, memory_map>>
mutexVars == <<raw, debug_assertions, guards, mlog>>
onceVars == <<ostate, ovalue, ocall, olast, ocount, single_core>>
entryVars == <<epc, interrupts, scancodes, isr, estop>>
termVars == <<cmdline, cmdline_cursor, scancode_buffer, layout, press, tlast,
              tcalls>>
csVars == <<rflags_interrupt, sections, cslast, cscalls>>
laterVars == <<memMapVars, mutexVars, onceVars, entryVars, termVars, csVars>>

vars == <<mem, garbage, root, top, base, overflow_checks, phase, calls, nops,
          last, ok4k, ok4m, pages, len, cap, flog, top0, blast, bcalls, bused,
          ipc, upper_bound, page_directory, cr3, cr4_pse, cr0_pg,
          mm_src, memory_map, raw, debug_assertions, guards, mlog,
          ostate, ovalue, ocall, olast, ocount, single_core, epc,
          interrupts, scancodes, isr, estop, cmdline, cmdline_cursor, scancode_buffer,
          layout, press, tlast, tcalls, rflags_interrupt, sections, cslast,
          cscalls>>

-----------------------------------------------------------------------------
(* Bounds of the model. *)

\* Mapping calls per behaviour.
MaxOps == 2

\* Pages the bump allocator can hand out at most.
MaxPoolPages == 3

\* 4 KiB steps of one map_range call.
MaxSmallSteps == 2

-----------------------------------------------------------------------------
(* Program constants. *)

FOUR_KIB == 4096
FOUR_MIB == 4096 * 1024

PRESENT == 1
WRITABLE == 2
USER_ACCESSIBLE == 4
HUGE_PAGE == 128

-----------------------------------------------------------------------------
(* 32-bit words.  u32 and usize are both 32 bits wide on the kernel's       *)
(* target (i386).  A word is kept as its 20 high bits (pg, the number of    *)
(* the 4 KiB page it lies in) and its 12 low bits (lo), so that every       *)
(* number of the model stays below 2^31.                                    *)

NPages == 2 ^ 20

W(pg, lo) == [pg |-> pg, lo |-> lo]

\* The word of a number below 2^31.
ToWord(n) == W(n \div FOUR_KIB, n % FOUR_KIB)

\* The page-aligned address of page number pg.
PageAddr(pg) == W(pg, 0)

\* a + b before it is cut to 32 bits: pg may reach 2^20 and beyond.
WSum(a, b) ==
    LET lo == a.lo + b.lo
    IN  W(a.pg + b.pg + (lo \div FOUR_KIB), lo % FOUR_KIB)

\* a + b overflows 32 bits.
WOverflows(a, b) == WSum(a, b).pg >= NPages

\* a + b, wrapping.
WAdd(a, b) == LET x == WSum(a, b) IN W(x.pg % NPages, x.lo)

\* a - b, wrapping.
WSub(a, b) ==
    LET lo == a.lo - b.lo
        borrow == IF lo < 0 THEN 1 ELSE 0
    IN  W((a.pg - b.pg - borrow) % NPages, lo % FOUR_KIB)

WGe(a, b) == a.pg > b.pg \/ (a.pg = b.pg /\ a.lo >= b.lo)

\* a % FOUR_KIB and a % FOUR_MIB, as numbers.
Mod4K(a) == a.lo
Mod4M(a) == (a.pg % 1024) * FOUR_KIB + a.lo

-----------------------------------------------------------------------------
(* Bit operations. *)

RECURSIVE BitOr(_, _)
BitOr(a, b) ==
    IF a = 0 THEN b
    ELSE IF b = 0 THEN a
    ELSE (IF a % 2 = 1 \/ b % 2 = 1 THEN 1 ELSE 0) + 2 * BitOr(a \div 2, b \div 2)

RECURSIVE BitAnd(_, _)
BitAnd(a, b) ==
    IF a = 0 \/ b = 0 THEN 0
    ELSE (IF a % 2 = 1 /\ b % 2 = 1 THEN 1 ELSE 0) + 2 * BitAnd(a \div 2, b \div 2)

\* a | b and a & b on words
WOr(a, b) == W(BitOr(a.pg, b.pg), BitOr(a.lo, b.lo))
WAnd(a, b) == W(BitAnd(a.pg, b.pg), BitAnd(a.lo, b.lo))

Zero == W(0, 0)

\* a & !(m - 1) for a power of two m
AlignDown(a, m) == a - (a % m)

-----------------------------------------------------------------------------
(* cpu/paging/model.rs: PageTableFlags and PageTableIndex.  A flag set and  *)
(* a table entry are both a PageTableFlags, that is, a 32-bit word.         *)

is_present(e) == WAnd(e, ToWord(PRESENT)) # Zero

\* A variant that never sees a huge page.
is_huge_page_never(e) == FALSE
is_huge_page(e) == WAnd(e, ToWord(HUGE_PAGE)) # Zero

\* self.bits() & !0xFFF
address_4kib(e) == W(e.pg, 0)

\* address_4mib, extract_4mib_offset and extract_4kib_offset are called by
\* translate but are not part of the sources at hand: the address of a huge
\* page is the entry without its low 22 bits, the offsets are the low 22 and
\* the low 12 bits of the virtual address.
address_4mib(e) == W(AlignDown(e.pg, 1024), 0)
extract_4mib_offset(virt) == W(virt.pg % 1024, virt.lo)
extract_4kib_offset(virt) == W(0, virt.lo)

\* virt_addr >> 22
extract_page_directory_index(virt) == virt.pg \div 1024
\* extract_page_table_index() without the mask.
extract_page_table_index_no_mask(virt) == virt.pg

\* (virt_addr >> 12) & 0x3FF
extract_page_table_index(virt) == virt.pg % 1024

-----------------------------------------------------------------------------
(* Physical memory, as the mapping code reads and writes it through         *)
(* Context::map (the identity while paging is off).  An address space with  *)
(* its context is handled as a record                                       *)
(*     s = [mem, garbage, root, top, base, calls].                          *)

EmptyEnt == [i \in {} |-> Zero]

Table(s, frame) ==
    IF frame \in DOMAIN s.mem THEN s.mem[frame]
    ELSE [default |-> s.garbage, ent |-> EmptyEnt]

\* table[index], for the table at physical address `frame`
Entry(s, frame, i) ==
    LET t == Table(s, frame)
    IN  IF i \in DOMAIN t.ent THEN t.ent[i] ELSE t.default

\* table[index] = e
WriteEntry(s, frame, i, e) ==
    LET t == Table(s, frame)
        t2 == [t EXCEPT !.ent = (i :> e) @@ t.ent]
    IN  [s EXCEPT !.mem = (frame :> t2) @@ s.mem]

\* ptr.write_bytes(0x00, 1) on a *mut PageTable
ZeroPage(s, frame) ==
    [s EXCEPT !.mem = (frame :> [default |-> Zero, ent |-> EmptyEnt]) @@ s.mem]

-----------------------------------------------------------------------------
(* utility/init_allocator.rs and the InitContext of cpu/paging/mod.rs.      *)
(* `top` and `base` are usize values; the arena of the model lies below     *)
(* 2^31, so they are kept as plain numbers.                                 *)

\* try_allocate_raw() without the alignment of the address.
try_allocate_raw_unaligned(s, size, align) ==
    IF s.top - size < 0 THEN [ok |-> FALSE, addr |-> 0, s |-> s]
    ELSE LET addr == s.top - size
         IN  IF addr < s.base THEN [ok |-> FALSE, addr |-> 0, s |-> s]
             ELSE [ok |-> TRUE, addr |-> addr, s |-> [s EXCEPT !.top = addr]]

\* try_allocate_raw() that moves top before it compares with base.
try_allocate_raw_late_check(s, size, align) ==
    IF s.top - size < 0 THEN [ok |-> FALSE, addr |-> 0, s |-> s]
    ELSE LET addr == AlignDown(s.top - size, align)
         IN  IF addr < s.base
             THEN [ok |-> FALSE, addr |-> 0, s |-> [s EXCEPT !.top = addr]]
             ELSE [ok |-> TRUE, addr |-> addr, s |-> [s EXCEPT !.top = addr]]

\* try_allocate_raw() that rounds the address up.
try_allocate_raw_align_up(s, size, align) ==
    IF s.top - size < 0 THEN [ok |-> FALSE, addr |-> 0, s |-> s]
    ELSE LET low == s.top - size
             addr == low + ((align - (low % align)) % align)
         IN  IF addr < s.base THEN [ok |-> FALSE, addr |-> 0, s |-> s]
             ELSE [ok |-> TRUE, addr |-> addr, s |-> [s EXCEPT !.top = addr]]

try_allocate_raw(s, size, align) ==
    IF s.top - size < 0 THEN [ok |-> FALSE, addr |-> 0, s |-> s]
    ELSE LET addr == AlignDown(s.top - size, align)
         IN  IF addr < s.base THEN [ok |-> FALSE, addr |-> 0, s |-> s]
             ELSE [ok |-> TRUE, addr |-> addr, s |-> [s EXCEPT !.top = addr]]

\* InitContext::allocate; `calls` counts the calls.
allocate(s) ==
    LET r == try_allocate_raw([s EXCEPT !.calls = s.calls + 1], FOUR_KIB, FOUR_KIB)
    IN  [ok |-> r.ok, addr |-> ToWord(r.addr), s |-> r.s]

-----------------------------------------------------------------------------
(* cpu/paging/address_space.rs *)

None == [some |-> FALSE, val |-> Zero]
Some(x) == [some |-> TRUE, val |-> x]

\* AddressSpace::new
\* new() that forgets to fill the root table with zeroes.
new_no_zero(s) ==
    LET a == allocate(s)
    IN  IF ~a.ok THEN [res |-> "OutOfMemory", s |-> a.s]
        ELSE [res |-> "Ok", s |-> [a.s EXCEPT !.root = a.addr]]

new(s) ==
    LET a == allocate(s)
    IN  IF ~a.ok THEN [res |-> "OutOfMemory", s |-> a.s]
        ELSE [res |-> "Ok", s |-> [ZeroPage(a.s, a.addr) EXCEPT !.root = a.addr]]

translate(s, virt) ==
    LET pde == Entry(s, s.root, extract_page_directory_index(virt))
    IN  IF ~is_present(pde) THEN None
        ELSE IF is_huge_page(pde)
             THEN Some(WAdd(extract_4mib_offset(virt), address_4mib(pde)))
        ELSE LET pte == Entry(s, address_4kib(pde), extract_page_table_index(virt))
             IN  IF is_present(pte)
                 THEN Some(WAdd(extract_4kib_offset(virt), address_4kib(pte)))
                 ELSE None

\* update_flags() that keeps the common flags only.
update_flags_and(parent, child) == WAnd(parent, child)

update_flags(parent, child) == WOr(parent, child)

\* The end of map_4kib, writing the entry before it reports AlreadyMapped.
map_4kib_pte_clobber(s, pta, virt, phys, flags) ==
    LET pte_index == extract_page_table_index(virt)
        w == WriteEntry(s, pta, pte_index,
                        WOr(WOr(flags, ToWord(PRESENT)), phys))
    IN  IF is_present(Entry(s, pta, pte_index))
        THEN [res |-> "AlreadyMapped", s |-> w]
        ELSE [res |-> "Ok", s |-> w]

\* The end of map_4kib (lines 154-165): the page table entry, in the table
\* found at physical address pta.
map_4kib_pte(s, pta, virt, phys, flags) ==
    LET pte_index == extract_page_table_index(virt)
    IN  IF is_present(Entry(s, pta, pte_index))
        THEN [res |-> "AlreadyMapped", s |-> s]
        ELSE [res |-> "Ok",
              s |-> WriteEntry(s, pta, pte_index,
                               WOr(WOr(flags, ToWord(PRESENT)), phys))]

map_4kib(s, virt, phys, flags) ==
    LET pde_index == extract_page_directory_index(virt)
        pde == Entry(s, s.root, pde_index)
    IN  IF ~is_present(pde)
        THEN LET a == allocate(s)
             IN  IF ~a.ok THEN [res |-> "OutOfMemory", s |-> a.s]
                 ELSE map_4kib_pte(
                        WriteEntry(ZeroPage(a.s, a.addr), s.root, pde_index,
                                   WOr(WOr(flags, ToWord(PRESENT)), phys)),
                        a.addr, virt, phys, flags)
        ELSE IF is_huge_page(pde) THEN [res |-> "AlreadyMapped", s |-> s]
        ELSE LET s1 == WriteEntry(s, s.root, pde_index, update_flags(pde, flags))
             IN  map_4kib_pte(s1, address_4kib(Entry(s1, s.root, pde_index)),
                              virt, phys, flags)

\* Variants of map_4mib with a slip: one that does not look at the entry it
\* replaces, one that only refuses to replace a huge page, one that forgets
\* HUGE_PAGE.
map_4mib_overwrite(s, virt, phys, flags) ==
    [res |-> "Ok",
     s |-> WriteEntry(s, s.root, extract_page_directory_index(virt),
                      WOr(WOr(WOr(flags, ToWord(PRESENT)), ToWord(HUGE_PAGE)), phys))]

map_4mib_only_huge(s, virt, phys, flags) ==
    LET pde_index == extract_page_directory_index(virt)
        pde == Entry(s, s.root, pde_index)
    IN  IF is_present(pde) /\ is_huge_page(pde)
        THEN [res |-> "AlreadyMapped", s |-> s]
        ELSE [res |-> "Ok",
              s |-> WriteEntry(s, s.root, pde_index,
                      WOr(WOr(WOr(flags, ToWord(PRESENT)), ToWord(HUGE_PAGE)), phys))]

map_4mib_no_flag(s, virt, phys, flags) ==
    LET pde_index == extract_page_directory_index(virt)
    IN  IF is_present(Entry(s, s.root, pde_index))
        THEN [res |-> "AlreadyMapped", s |-> s]
        ELSE [res |-> "Ok",
              s |-> WriteEntry(s, s.root, pde_index,
                               WOr(WOr(flags, ToWord(PRESENT)), phys))]

map_4mib(s, virt, phys, flags) ==
    LET pde_index == extract_page_directory_index(virt)
    IN  IF is_present(Entry(s, s.root, pde_index))
        THEN [res |-> "AlreadyMapped", s |-> s]
        ELSE [res |-> "Ok",
              s |-> WriteEntry(s, s.root, pde_index,
                      WOr(WOr(WOr(flags, ToWord(PRESENT)), ToWord(HUGE_PAGE)), phys))]

\* The test of line 240.
can_map_4mib(virt, phys, length) ==
    /\ WGe(length, ToWord(FOUR_MIB))
    /\ Mod4M(virt) = 0
    /\ Mod4M(phys) = 0

\* The loop of map_range.  `oc` is the build's overflow-checks setting: the
\* additions of lines 243-244 and 249-250 panic when they overflow 32 bits
\* in a build with overflow checks, and wrap in a build without.  The result
\* also tells where the loop stood when it returned (`at`, the running virt).
RECURSIVE map_range(_, _, _, _, _, _)
map_range(s, virt, phys, length, flags, oc) ==
    IF length = Zero THEN [res |-> "Ok", s |-> s, at |-> virt]
    ELSE LET huge == can_map_4mib(virt, phys, length)
             step == IF huge THEN ToWord(FOUR_MIB) ELSE ToWord(FOUR_KIB)
             r == IF huge THEN map_4mib(s, virt, phys, flags)
                  ELSE map_4kib(s, virt, phys, flags)
         IN  IF r.res # "Ok" THEN [res |-> r.res, s |-> r.s, at |-> virt]
             ELSE IF oc /\ (WOverflows(virt, step) \/ WOverflows(phys, step))
                  THEN [res |-> "panic", s |-> r.s, at |-> virt]
             ELSE map_range(r.s, WAdd(virt, step), WAdd(phys, step),
                            WSub(length, step), flags, oc)

-----------------------------------------------------------------------------
(* Inputs. *)

Flags == {ToWord(WRITABLE), ToWord(USER_ACCESSIBLE)}

\* The bump allocator's region ends here.
ArenaTop == 3 * FOUR_MIB

\* The frame AddressSpace::new gets from a non-empty pool.
RootFrame == ToWord(ArenaTop - FOUR_KIB)

\* What a never-written entry of RAM may hold: nothing, or a stale present entry.
GarbageWords == {Zero, W(2748, PRESENT + WRITABLE)}

\* The last 4 KiB page and the last 4 MiB window of the address space.
LastPage == PageAddr(NPages - 1)
LastWindow == PageAddr(NPages - 1024)

Virt4K == {PageAddr(1), PageAddr(2), LastPage}
Phys4K == {PageAddr(2), RootFrame}

Virt4M == {Zero, LastWindow}
Phys4M == {PageAddr(1024), PageAddr(2048)}

RangeVirt == {Zero, PageAddr(1023), LastWindow}
RangePhys == {Zero, PageAddr(1023)}
RangeLen == {PageAddr(2), PageAddr(1024), PageAddr(1026), PageAddr(2048)}

\* virt + length <= 2^32
FitsIn32(a, length) ==
    LET e == WSum(a, length) IN e.pg < NPages \/ (e.pg = NPages /\ e.lo = 0)

\* The number of 4 KiB steps the loop of map_range takes on (virt, phys,
\* length) when no step fails: all of the range when it is short or virt
\* and phys are not congruent modulo 4 MiB, and otherwise the pages before
\* the first 4 MiB boundary and those after the last.
SmallSteps(virt, phys, length) ==
    LET head == (0 - virt.pg) % 1024
    IN  IF Mod4M(virt) # Mod4M(phys) \/ length.pg < head + 1024
        THEN length.pg
        ELSE head + ((length.pg - head) % 1024)

\* The ranges tried: inside the 32-bit address space, and with few 4 KiB steps.
RangeInputs ==
    {r \in RangeVirt \X RangePhys \X RangeLen :
        /\ FitsIn32(r[1], r[3])
        /\ FitsIn32(r[2], r[3])
        /\ SmallSteps(r[1], r[2], r[3]) <= MaxSmallSteps}

-----------------------------------------------------------------------------
(* The state machine. *)

\* The directory entry of virt's 4 MiB window is present.
DirPresent(s, virt) ==
    is_present(Entry(s, s.root, extract_page_directory_index(virt)))

Cur == [mem |-> mem, garbage |-> garbage, root |-> root, top |-> top,
        base |-> base, calls |-> calls]

\* The address space and its context become s.
InstallMem(s) ==
    /\ mem' = s.mem
    /\ root' = s.root
    /\ top' = s.top
    /\ calls' = s.calls
    /\ UNCHANGED <<garbage, base, overflow_checks>>

Install(s) ==
    /\ InstallMem(s)
    /\ UNCHANGED <<frameVars, bumpVars, initVars, laterVars>>

NoCall == [op |-> "none", virt |-> Zero, phys |-> Zero, length |-> Zero,
           flags |-> Zero, res |-> "none", at |-> Zero]

NoRaw == [op |-> "none", size |-> 0, align |-> 1, ok |-> FALSE, addr |-> 0,
          before |-> 0]

\* No frame allocator exists.
FramesIdle ==
    /\ pages = << >>
    /\ len = 0
    /\ cap = 0
    /\ flog = << >>

\* The bump allocator is used through the paging context only.
BumpIdle ==
    /\ top0 = top
    /\ blast = NoRaw
    /\ bcalls = 0
    /\ bused = {}

\* No memory map is being read.
MemMapIdle ==
    /\ mm_src = << >>
    /\ memory_map = << >>

\* No Mutex is in use.
MutexIdle ==
    /\ raw = 0
    /\ debug_assertions = FALSE
    /\ guards = {}
    /\ mlog = << >>

NoOnce == [ctx |-> 0, op |-> "none", arg |-> 0, res |-> "none", val |-> 0,
           begun |-> 0, solo |-> FALSE]

\* No OnceCell is in use.
OnceIdle ==
    /\ ostate = 0
    /\ ovalue = 0
    /\ ocall = << >>
    /\ olast = NoOnce
    /\ ocount = 0
    /\ single_core = FALSE

\* entry_point2 is not running.
EntryIdle ==
    /\ epc = "idle"
    /\ interrupts = FALSE
    /\ scancodes = 0
    /\ isr = FALSE
    /\ estop = "none"

\* Qwerty::new()
Qwerty_new == [modifiers |-> {}, state |-> "Neutral",
               numlock_repeating |-> FALSE, capslock_repeating |-> FALSE]

NoPress == [caps |-> -1, num |-> -1]

NoTerm == [op |-> "none", scancode |-> 0, c |-> "None", res |-> "none",
           before |-> << >>, taken |-> << >>]

\* The terminal is as Terminal::new() made it.
TermIdle ==
    /\ cmdline = << >>
    /\ cmdline_cursor = 0
    /\ scancode_buffer = << >>
    /\ layout = Qwerty_new
    /\ press = NoPress
    /\ tlast = NoTerm
    /\ tcalls = 0

\* No critical-section step so far.
NoSection == [op |-> "none", res |-> "none", before |-> FALSE]

\* No critical section is open; the flag is clear as at boot.
CriticalIdle ==
    /\ rflags_interrupt = FALSE
    /\ sections = << >>
    /\ cslast = NoSection
    /\ cscalls = 0

LaterIdle ==
    /\ MemMapIdle
    /\ MutexIdle
    /\ OnceIdle
    /\ EntryIdle
    /\ TermIdle
    /\ CriticalIdle

\* paging::init is not running.
InitIdle ==
    /\ ipc = "idle"
    /\ upper_bound = Zero
    /\ page_directory = Zero
    /\ cr3 = Zero
    /\ cr4_pse = FALSE
    /\ cr0_pg = FALSE

\* No address space is being built.
PagingIdle ==
    /\ mem = [f \in {} |-> 0]
    /\ garbage = Zero
    /\ root = Zero
    /\ overflow_checks = FALSE
    /\ phase = "boot"
    /\ calls = 0
    /\ nops = 0
    /\ last = NoCall
    /\ ok4k = {}
    /\ ok4m = {}

Init ==
    /\ mem = [f \in {} |-> 0]
    /\ garbage \in GarbageWords
    /\ root = Zero
    /\ top = ArenaTop
    /\ \E n \in 0 .. MaxPoolPages : base = ArenaTop - n * FOUR_KIB
    /\ overflow_checks \in BOOLEAN
    /\ phase = "boot"
    /\ calls = 0
    /\ nops = 0
    /\ last = NoCall
    /\ ok4k = {}
    /\ ok4m = {}
    /\ FramesIdle
    /\ BumpIdle
    /\ InitIdle
    /\ LaterIdle

New ==
    /\ phase = "boot"
    /\ LET r == new(Cur)
       IN  /\ Install(r.s)
           /\ phase' = IF r.res = "Ok" THEN "ready" ELSE "failed"
    /\ UNCHANGED <<nops, last, ok4k, ok4m>>

Map4Kib ==
    /\ phase = "ready"
    /\ nops < MaxOps
    /\ \E virt \in Virt4K, phys \in Phys4K, flags \in Flags :
         LET r == map_4kib(Cur, virt, phys, flags)
         IN  /\ Install(r.s)
             /\ last' = [op |-> "map_4kib", virt |-> virt, phys |-> phys,
                         length |-> ToWord(FOUR_KIB), flags |-> flags,
                         res |-> r.res, at |-> virt]
             /\ ok4k' = IF r.res = "Ok"
                        THEN ok4k \cup {[virt |-> virt, phys |-> phys,
                                         fresh |-> ~DirPresent(Cur, virt)]}
                        ELSE ok4k
    /\ nops' = nops + 1
    /\ UNCHANGED <<phase, ok4m>>

Map4Mib ==
    /\ phase = "ready"
    /\ nops < MaxOps
    /\ \E virt \in Virt4M, phys \in Phys4M, flags \in Flags :
         LET r == map_4mib(Cur, virt, phys, flags)
         IN  /\ Install(r.s)
             /\ last' = [op |-> "map_4mib", virt |-> virt, phys |-> phys,
                         length |-> ToWord(FOUR_MIB), flags |-> flags,
                         res |-> r.res, at |-> virt]
             /\ ok4m' = IF r.res = "Ok"
                        THEN ok4m \cup {[virt |-> virt, phys |-> phys]}
                        ELSE ok4m
    /\ nops' = nops + 1
    /\ UNCHANGED <<phase, ok4k>>

MapRange ==
    /\ phase = "ready"
    /\ nops < MaxOps
    /\ \E in \in RangeInputs, flags \in Flags :
         LET r == map_range(Cur, in[1], in[2], in[3], flags, overflow_checks)
         IN  /\ Install(r.s)
             /\ last' = [op |-> "map_range", virt |-> in[1], phys |-> in[2],
                         length |-> in[3], flags |-> flags, res |-> r.res,
                         at |-> r.at]
             /\ phase' = IF r.res = "panic" THEN "halted" ELSE phase
    /\ nops' = nops + 1
    /\ UNCHANGED <<ok4k, ok4m>>

Next == New \/ Map4Kib \/ Map4Mib \/ MapRange

Spec == Init /\ [][Next]_vars

-----------------------------------------------------------------------------
(* The addresses translate is looked at: in the 4 MiB windows and at the    *)
(* table indices the inputs above can touch, at the first bytes and at the  *)
(* last byte of the page.                                                   *)

ProbeDirs == {0, 1, 2, 1023}
ProbeIdx == {0, 1, 2, 1023}
Offsets == {0, 1, FOUR_KIB - 1}

ProbePages == {PageAddr(d * 1024 + i) : d \in ProbeDirs, i \in ProbeIdx}
Probes == {W(pg.pg, off) : pg \in ProbePages, off \in Offsets}

SameTranslation(s, t) == \A a \in Probes : translate(s, a) = translate(t, a)

\* An address space exists.
Live == phase \in {"ready", "halted"}

\* The step is a call of operation op.
Called(op) == nops' = nops + 1 /\ last'.op = op

-----------------------------------------------------------------------------
(* Round trips. *)

\* C1: once map_4kib(v, p, F) has returned Ok on an address space whose
\* directory entry for v was absent, translate(a) = p + (a mod 4096) for
\* every a in the page of v, now and after any later mapping call.
C1_RoundTrip4Kib ==
    Live => \A e \in ok4k :
              e.fresh => \A off \in Offsets :
                 translate(Cur, W(e.virt.pg, off)) = Some(W(e.phys.pg, off))

\* Offsets k inside a 4 MiB page: its first bytes, a page boundary, its last byte.
HugeOffsets == {W(0, 0), W(0, 1), W(0, FOUR_KIB - 1), W(1, 0),
                W(1023, FOUR_KIB - 1)}

\* C2: right after map_4mib(v, p, F) has returned Ok, translate(v + k) =
\* p + k for every k in [0, 4 MiB).
C2_RoundTrip4Mib ==
    (last.op = "map_4mib" /\ last.res = "Ok") =>
        \A k \in HugeOffsets :
            translate(Cur, WAdd(last.virt, k)) = Some(WAdd(last.phys, k))

C2_Witness ==
    /\ last.op = "map_4mib" /\ last.res = "Ok"
    /\ last.virt = LastWindow
    /\ nops = 2

-----------------------------------------------------------------------------
(* Double mappings. *)

\* C3: a map_4kib call on a virt that an earlier map_4kib call mapped returns
\* AlreadyMapped and leaves translate(a) as it was for every a.
C3_NoDouble4Kib ==
    [][(Called("map_4kib") /\ \E e \in ok4k : e.virt = last'.virt)
         => (last'.res = "AlreadyMapped" /\ SameTranslation(Cur', Cur))]_vars

\* C4: a map_4mib call on a virt that an earlier map_4mib call mapped returns
\* AlreadyMapped, changes no directory entry (nothing in memory), and leaves
\* translate(a) as it was for every a.
C4_NoDouble4Mib ==
    [][(Called("map_4mib") /\ \E e \in ok4m : e.virt = last'.virt)
         => /\ last'.res = "AlreadyMapped"
            /\ mem' = mem
            /\ SameTranslation(Cur', Cur)]_vars

C4_Witness ==
    /\ last.op = "map_4mib" /\ last.res = "AlreadyMapped"
    /\ \E e \in ok4m : e.virt = last.virt /\ e.phys # last.phys

\* The directory entry of virt's window.
DirEntry(s, virt) == Entry(s, s.root, extract_page_directory_index(virt))

\* C5: map_4kib into a window whose directory entry is a present huge page,
\* and map_4mib on a window whose directory entry is present (huge page or
\* page table), return AlreadyMapped and leave the directory entry as it was.
C5_CrossGranularity ==
    [][/\ (Called("map_4kib")
             /\ is_present(DirEntry(Cur, last'.virt))
             /\ is_huge_page(DirEntry(Cur, last'.virt)))
          => (last'.res = "AlreadyMapped"
                /\ DirEntry(Cur', last'.virt) = DirEntry(Cur, last'.virt))
       /\ (Called("map_4mib") /\ is_present(DirEntry(Cur, last'.virt)))
          => (last'.res = "AlreadyMapped"
                /\ DirEntry(Cur', last'.virt) = DirEntry(Cur, last'.virt))]_vars

\* A map_4mib call refused on a window that holds a page table.
C5_Witness ==
    /\ last.op = "map_4mib" /\ last.res = "AlreadyMapped"
    /\ is_present(DirEntry(Cur, last.virt))
    /\ ~is_huge_page(DirEntry(Cur, last.virt))

-----------------------------------------------------------------------------
(* map_range on a fresh address space. *)

\* The address space as AddressSpace::new leaves it, over the context the
\* behaviour started with.
FreshAS ==
    new([mem |-> [f \in {} |-> 0], garbage |-> garbage, root |-> Zero,
         top |-> ArenaTop, base |-> base, calls |-> 0]).s

\* The last call was operation op, made on the fresh address space.
FirstCall(op) == nops = 1 /\ last.op = op

\* map_4mib(virt + i * 4 MiB, phys + i * 4 MiB, flags) for i = 0 .. n - 1, in
\* order, up to the first call that fails.
RECURSIVE seq_4mib(_, _, _, _, _)
seq_4mib(s, virt, phys, n, flags) ==
    IF n = 0 THEN [res |-> "Ok", s |-> s]
    ELSE LET r == map_4mib(s, virt, phys, flags)
         IN  IF r.res # "Ok" THEN r
             ELSE seq_4mib(r.s, WAdd(virt, ToWord(FOUR_MIB)),
                           WAdd(phys, ToWord(FOUR_MIB)), n - 1, flags)

\* map_4kib(virt + i * 4096, phys + i * 4096, flags) for i = 0 .. n - 1, in
\* order, up to the first call that fails.
RECURSIVE seq_4kib(_, _, _, _, _)
seq_4kib(s, virt, phys, n, flags) ==
    IF n = 0 THEN [res |-> "Ok", s |-> s]
    ELSE LET r == map_4kib(s, virt, phys, flags)
         IN  IF r.res # "Ok" THEN r
             ELSE seq_4kib(r.s, WAdd(virt, ToWord(FOUR_KIB)),
                           WAdd(phys, ToWord(FOUR_KIB)), n - 1, flags)

\* virt, phys and length are multiples of 4 MiB.
Aligned4M(c) == Mod4M(c.virt) = 0 /\ Mod4M(c.phys) = 0 /\ Mod4M(c.length) = 0

\* C6: on a fresh address space, map_range(v, p, n * 4 MiB, F) with v and p
\* 4 MiB-aligned gives the result and the translations of map_4mib called on
\* the n windows in order.
C6_Range4MibEquiv ==
    (FirstCall("map_range") /\ Aligned4M(last)) =>
        LET ref == seq_4mib(FreshAS, last.virt, last.phys,
                            last.length.pg \div 1024, last.flags)
        IN  last.res = ref.res /\ SameTranslation(Cur, ref.s)

\* Offsets k below length: in the first pages, around the first 4 MiB
\* boundary, in the last pages.
RangeOffsets(length) ==
    {k \in {W(pg, off) : pg \in {0, 1, 1023, 1024, 1025, 2047}, off \in Offsets} :
        ~WGe(k, length)}

\* C7: a map_range(v, p, length, F) that returns Ok on a fresh address space
\* makes translate(v + k) = p + k for every k below length, and agrees on
\* every translation with a successful run of map_4kib over the pages of the
\* range on another fresh address space (compared here for the ranges of at
\* most MaxSmallSteps pages).
C7_RangeGranularity ==
    (FirstCall("map_range") /\ last.res = "Ok") =>
        /\ \A k \in RangeOffsets(last.length) :
              translate(Cur, WAdd(last.virt, k)) = Some(WAdd(last.phys, k))
        /\ last.length.pg <= MaxSmallSteps =>
              LET ref == seq_4kib(FreshAS, last.virt, last.phys,
                                  last.length.pg, last.flags)
              IN  ref.res = "Ok" => SameTranslation(Cur, ref.s)

\* The indices of the present entries of the page directory (a directory is
\* zero-filled by new, so its present entries are among those written since).
PresentDirEntries(s) ==
    {i \in DOMAIN Table(s, s.root).ent : is_present(Entry(s, s.root, i))}

\* C8: on a fresh address space, map_range(v, p, n * 4 MiB, F) with v and p
\* 4 MiB-aligned leaves exactly n present directory entries, all of them huge
\* pages, and the context's allocate() has been called by new() only.
C8_GreedyHuge ==
    (FirstCall("map_range") /\ Aligned4M(last)) =>
        /\ Cardinality(PresentDirEntries(Cur)) = last.length.pg \div 1024
        /\ \A i \in PresentDirEntries(Cur) : is_huge_page(Entry(Cur, root, i))
        /\ Table(Cur, root).default = Zero
        /\ calls = 1

\* Scenario B: map_range(0, 0, 8 MiB, F) has run on a fresh address space.
C8_Witness ==
    /\ FirstCall("map_range") /\ last.res = "Ok"
    /\ last.virt = Zero /\ last.phys = Zero /\ last.length = PageAddr(2048)
    /\ PresentDirEntries(Cur) = {0, 1}

\* C9 (Scenario A): on a fresh address space over a context that can supply
\* pages, map_4kib(0x1000, 0x2000, WRITABLE) returns Ok, translate(0x1000) is
\* 0x2000 and translate(0x1FFF) is None.
C9_ScenarioA ==
    (/\ FirstCall("map_4kib")
     /\ last.virt = PageAddr(1) /\ last.phys = PageAddr(2)
     /\ last.flags = ToWord(WRITABLE)
     /\ base <= ArenaTop - 2 * FOUR_KIB)
    => /\ last.res = "Ok"
       /\ translate(Cur, W(1, 0)) = Some(W(2, 0))
       /\ translate(Cur, W(1, FOUR_KIB - 1)) = None

\* C10: when map_range returns AlreadyMapped or OutOfMemory at some page,
\* every page of the range before that page translates to its requested
\* physical page, and the translation of every page of the range from that
\* page on is what it was before the call.
C10_PartialFailure ==
    [][(Called("map_range") /\ last'.res \in {"AlreadyMapped", "OutOfMemory"})
        => \A a \in Probes :
             /\ (WGe(a, last'.virt) /\ ~WGe(a, last'.at))
                  => translate(Cur', a)
                       = Some(WAdd(last'.phys, WSub(a, last'.virt)))
             /\ (WGe(a, last'.at) /\ ~WGe(WSub(a, last'.virt), last'.length))
                  => translate(Cur', a) = translate(Cur, a)]_vars

-----------------------------------------------------------------------------
(* Shape of the state. *)

-----------------------------------------------------------------------------
(* Creation, ownership of the page tables, flags of the directory entries. *)

\* C11: new() calls the context's allocate() exactly once and zero-fills the
\* page it gets as the root table, so that translate(a) is None for every a;
\* if allocate() fails, new() fails with OutOfMemory, nothing is written and
\* no address space exists.
C11_New ==
    /\ phase = "boot" => calls = 0
    /\ (phase = "ready" /\ nops = 0) =>
          /\ calls = 1
          /\ root = RootFrame
          /\ top = ArenaTop - FOUR_KIB
          /\ mem = (root :> [default |-> Zero, ent |-> EmptyEnt])
          /\ \A a \in Probes : translate(Cur, a) = None
    /\ phase = "failed" =>
          /\ calls = 1
          /\ base > ArenaTop - FOUR_KIB
          /\ mem = [f \in {} |-> 0] /\ root = Zero /\ top = ArenaTop
          /\ nops = 0
    /\ phase # "boot" => (phase = "failed" <=> base > ArenaTop - FOUR_KIB)

\* A new address space on RAM that held present entries before.
C11_Witness ==
    /\ phase = "ready" /\ nops = 0
    /\ is_present(garbage)

\* The frames the context's allocate() has returned so far: the bump
\* allocator hands out the pages from the top of the arena downwards.
AllocatedFrames ==
    {PageAddr(p) : p \in (top \div FOUR_KIB) .. ((ArenaTop \div FOUR_KIB) - 1)}

\* C12: every present directory entry without HUGE_PAGE holds the address of
\* a page that the context's allocate() returned.
C12_TableOwnership ==
    Live => \A i \in PresentDirEntries(Cur) :
              LET e == Entry(Cur, root, i)
              IN  ~is_huge_page(e) => address_4kib(e) \in AllocatedFrames

\* The flag bits of an entry.
FlagBits(e) == W(0, e.lo)

\* C13: a map_4kib call into a window whose directory entry is present leaves
\* the entry's address field and PRESENT bit alone and removes no flag; when
\* the entry is a page table, its flags after the call are the union of its
\* flags before and the call's flags.
C13_DirFlagsMonotone ==
    [][Called("map_4kib") =>
         LET b == DirEntry(Cur, last'.virt)
             a == DirEntry(Cur', last'.virt)
         IN  is_present(b) =>
               /\ is_present(a)
               /\ a.pg = b.pg
               /\ WAnd(FlagBits(a), FlagBits(b)) = FlagBits(b)
               /\ ~is_huge_page(b) =>
                     FlagBits(a) = WOr(FlagBits(b), last'.flags)]_vars

\* Two map_4kib calls with different flags into the same window.
C13_Witness ==
    /\ nops = 2 /\ last.op = "map_4kib"
    /\ ~is_huge_page(DirEntry(Cur, last.virt))
    /\ WAnd(DirEntry(Cur, last.virt), ToWord(WRITABLE + USER_ACCESSIBLE))
         = ToWord(WRITABLE + USER_ACCESSIBLE)
    /\ \E e \in ok4k : e.fresh /\ e.virt.pg \div 1024 = last.virt.pg \div 1024
                           /\ e.virt # last.virt

-----------------------------------------------------------------------------
(* state/allocator.rs: the physical frame allocator, a stack of free page   *)
(* addresses kept in a borrowed array.  An Allocator is the record          *)
(* [pages, len]; pages maps the indices 0 .. pages.len() - 1 to u32 values. *)

\* Length of the backing array at most.
MaxCap == 3

\* Calls made on the frame allocator per behaviour.
MaxFrameCalls == 6

\* The page addresses handed to deallocate.
Frames == {1 * FOUR_KIB, 2 * FOUR_KIB, 3 * FOUR_KIB}

\* What a slot of the MaybeUninit array may hold before it is written.
SlotJunk == {0, 1 * FOUR_KIB}

Allocator_new(storage) == [pages |-> storage, len |-> 0]

\* deallocate() without its capacity assertion.
Allocator_deallocate_unchecked(a, page) ==
    [res |-> "Ok",
     a |-> [pages |-> (a.len :> page) @@ a.pages, len |-> a.len + 1]]

Allocator_deallocate(a, page) ==
    IF ~(a.len < Cardinality(DOMAIN a.pages)) THEN [res |-> "panic", a |-> a]
    ELSE [res |-> "Ok",
          a |-> [pages |-> [a.pages EXCEPT ![a.len] = page],
                 len |-> a.len + 1]]

\* allocate() that takes the oldest frame of the list.
Allocator_allocate_front(a) ==
    IF a.len = 0 THEN [res |-> "OutOfMemory", val |-> 0, a |-> a]
    ELSE [res |-> "Ok", val |-> a.pages[0], a |-> [a EXCEPT !.len = a.len - 1]]

\* allocate() that forgets to decrement len.
Allocator_allocate_no_pop(a) ==
    IF a.len = 0 THEN [res |-> "OutOfMemory", val |-> 0, a |-> a]
    ELSE [res |-> "Ok", val |-> a.pages[a.len - 1], a |-> a]

Allocator_allocate(a) ==
    IF a.len = 0 THEN [res |-> "OutOfMemory", val |-> 0, a |-> a]
    ELSE [res |-> "Ok", val |-> a.pages[a.len - 1],
          a |-> [a EXCEPT !.len = a.len - 1]]

FCur == [pages |-> pages, len |-> len]

\* A panic stops the kernel.
FHalted == flog # << >> /\ flog[Len(flog)].res = "panic"

InitFrames ==
    /\ PagingIdle
    /\ top = 0
    /\ base = 0
    /\ BumpIdle
    /\ InitIdle
    /\ LaterIdle
    /\ \E n \in 0 .. MaxCap, junk \in SlotJunk :
         LET a == Allocator_new([i \in 0 .. n - 1 |-> junk])
         IN  /\ pages = a.pages
             /\ len = a.len
             /\ cap = n
    /\ flog = << >>

Deallocate ==
    /\ ~FHalted
    /\ Len(flog) < MaxFrameCalls
    /\ \E page \in Frames :
         LET r == Allocator_deallocate(FCur, page)
         IN  /\ pages' = r.a.pages
             /\ len' = r.a.len
             /\ flog' = Append(flog, [op |-> "deallocate", page |-> page,
                                       res |-> r.res])
    /\ UNCHANGED <<cap, pagingVars, bumpVars, initVars, laterVars>>

Allocate ==
    /\ ~FHalted
    /\ Len(flog) < MaxFrameCalls
    /\ LET r == Allocator_allocate(FCur)
       IN  /\ pages' = r.a.pages
           /\ len' = r.a.len
           /\ flog' = Append(flog, [op |-> "allocate", page |-> r.val,
                                     res |-> r.res])
    /\ UNCHANGED <<cap, pagingVars, bumpVars, initVars, laterVars>>

NextFrames == Deallocate \/ Allocate

SpecFrames == InitFrames /\ [][NextFrames]_vars

\* The free list: the slots below len, oldest first.
FreeList == [i \in 0 .. len - 1 |-> pages[i]]

\* The step is a call of operation op on the frame allocator.
FCalled(op) == Len(flog') = Len(flog) + 1 /\ flog'[Len(flog')].op = op

FLast == flog[Len(flog)]

\* The frames deposited and not yet handed out again, oldest first, as a
\* stack would keep them.
RECURSIVE Stack(_)
Stack(log) ==
    IF log = << >> THEN << >>
    ELSE LET e == log[Len(log)]
             s == Stack(SubSeq(log, 1, Len(log) - 1))
         IN  IF e.op = "deallocate" /\ e.res = "Ok" THEN Append(s, e.page)
             ELSE IF e.op = "allocate" /\ e.res = "Ok"
                  THEN SubSeq(s, 1, Len(s) - 1)
                  ELSE s

\* log is n deposits followed by allocate calls only.
Scenario(log, n) ==
    /\ \A i \in 1 .. n : log[i].op = "deallocate" /\ log[i].res = "Ok"
    /\ \A i \in n + 1 .. Len(log) : log[i].op = "allocate"

\* C14: allocate() returns the most recently deposited frame not yet
\* returned; on an empty allocator it returns OutOfMemory and changes
\* nothing.  After the deposits f1 .. fn, n + 1 allocate() calls return
\* fn .. f1 and then OutOfMemory.
C14_Lifo ==
    [][FCalled("allocate") =>
         LET e == flog'[Len(flog')]
             s == Stack(flog)
         IN  /\ IF s = << >>
                THEN /\ e.res = "OutOfMemory"
                     /\ len = 0 /\ len' = 0 /\ pages' = pages
                ELSE /\ e.res = "Ok"
                     /\ e.page = s[Len(s)]
             /\ \A n \in 0 .. Len(flog) :
                  Scenario(flog', n) =>
                     \A k \in 1 .. Len(flog') - n :
                        IF k <= n
                        THEN /\ flog'[n + k].res = "Ok"
                             /\ flog'[n + k].page = flog'[n - k + 1].page
                        ELSE flog'[n + k].res = "OutOfMemory"]_vars

\* Two different frames deposited, then three allocate() calls.
C14_Witness ==
    /\ Len(flog) = 5
    /\ Scenario(flog, 2)
    /\ flog[1].page # flog[2].page
    /\ FLast.res = "OutOfMemory"

NoDup(f) == \A i, j \in DOMAIN f : f[i] = f[j] => i = j

\* The calls of log that passed page to deallocate.
Given(log, page) ==
    Cardinality({i \in DOMAIN log :
                    log[i].op = "deallocate" /\ log[i].page = page})

\* The deallocate calls of log that stored page.
Stored(log, page) ==
    Cardinality({i \in DOMAIN log :
                    /\ log[i].op = "deallocate" /\ log[i].res = "Ok"
                    /\ log[i].page = page})

\* The allocate calls of log that returned page.
Taken(log, page) ==
    Cardinality({i \in DOMAIN log :
                    /\ log[i].op = "allocate" /\ log[i].res = "Ok"
                    /\ log[i].page = page})

\* No call of log passed to deallocate a frame that had been stored and not
\* yet returned by allocate.
Disciplined(log) ==
    \A i \in DOMAIN log :
        log[i].op = "deallocate" =>
            LET pre == SubSeq(log, 1, i - 1)
            IN  Stored(pre, log[i].page) = Taken(pre, log[i].page)

\* C15 (as stated): a frame address appears in the free list at most once,
\* after any sequence of deallocate and allocate calls.
C15_Unique == NoDup(FreeList)

\* C15 (amended): a frame address appears in the free list at most once, as
\* long as no frame is passed to deallocate while it is in the free list.
C15_UniqueDisciplined == Disciplined(flog) => NoDup(FreeList)

\* A frame deposited, handed out and deposited again below another one.
C15_Witness ==
    /\ Disciplined(flog)
    /\ len >= 2
    /\ \E f \in Frames : Stored(flog, f) = 2

\* C16: a frame passed to deallocate exactly once is returned by at most one
\* allocate() call.
C16_AtMostOnce ==
    \A f \in Frames \cup SlotJunk :
        Given(flog, f) = 1 => Taken(flog, f) <= 1

\* A frame deposited once and returned, its stale copy left in a slot while
\* later allocate() calls were made.
C16_Witness ==
    \E f \in Frames :
        /\ Given(flog, f) = 1 /\ Taken(flog, f) = 1
        /\ \E i, j \in DOMAIN flog :
              /\ i < j
              /\ flog[i].op = "allocate" /\ flog[i].page = f
              /\ flog[j].op = "allocate"
        /\ \E i \in DOMAIN pages : i >= len /\ pages[i] = f

\* C17: len never exceeds the length of the backing array, whose slots are
\* the only ones written; deallocate on a full allocator panics and stores
\* nothing.
C17_Capacity ==
    [][/\ len' <= cap'
       /\ DOMAIN pages' = 0 .. cap' - 1
       /\ (FCalled("deallocate") /\ len = cap) =>
             /\ flog'[Len(flog')].res = "panic"
             /\ pages' = pages
             /\ len' = len
       /\ (FCalled("deallocate") /\ len < cap) =>
             flog'[Len(flog')].res = "Ok"]_vars

\* A non-empty array filled up, then one more deallocate.
C17_Witness ==
    /\ cap >= 2
    /\ len = cap
    /\ FHalted

-----------------------------------------------------------------------------
(* utility/init_allocator.rs used on its own, with layouts of any size and  *)
(* alignment.                                                               *)

\* try_allocate_raw and allocate_raw calls per behaviour.
MaxBumpCalls == 3

\* InitAllocator::new(base, top); base above top is a caller's mistake.
BumpBases == {0, 3, 8}
BumpTops == {2, 8, 21, 40}

\* Layout::size() and Layout::align() (a power of two).
LayoutSizes == {0, 1, 3, 5, 16, 48}
LayoutAligns == {1, 2, 4, 8, 16}

BCur == [top |-> top, base |-> base]

\* The bytes of an allocation: [addr, addr + size).
Region(addr, size) == addr .. addr + size - 1

\* oom() stops the kernel.
BHalted == blast.op = "allocate_raw" /\ ~blast.ok

restPagingVars == <<mem, garbage, root, overflow_checks, phase, calls, nops,
                    last, ok4k, ok4m>>

InitBump ==
    /\ PagingIdle
    /\ FramesIdle
    /\ base \in BumpBases
    /\ top \in BumpTops
    /\ BumpIdle
    /\ InitIdle
    /\ LaterIdle

RawCall(op) ==
    /\ ~BHalted
    /\ bcalls < MaxBumpCalls
    /\ \E size \in LayoutSizes, align \in LayoutAligns :
         LET r == try_allocate_raw(BCur, size, align)
         IN  /\ top' = r.s.top
             /\ base' = r.s.base
             /\ blast' = [op |-> op, size |-> size, align |-> align,
                          ok |-> r.ok, addr |-> r.addr, before |-> top]
             /\ bused' = IF r.ok THEN bused \cup Region(r.addr, size)
                                 ELSE bused
    /\ bcalls' = bcalls + 1
    /\ UNCHANGED <<top0, restPagingVars, frameVars, initVars, laterVars>>

TryAllocateRaw == RawCall("try_allocate_raw")

\* allocate_raw: try_allocate_raw, and oom() when it fails.
AllocateRaw == RawCall("allocate_raw")

NextBump == TryAllocateRaw \/ AllocateRaw

SpecBump == InitBump /\ [][NextBump]_vars

\* The step is a call of try_allocate_raw, directly or through allocate_raw.
BCalled == bcalls' = bcalls + 1

\* C18 (as stated): top never increases, and a successful call returns an
\* address in [base, original top) that is a multiple of the alignment and
\* the new top.
C18_Bounds ==
    [][(base <= top0 /\ BCalled) =>
         /\ top' <= top
         /\ blast'.ok =>
               /\ base <= blast'.addr /\ blast'.addr < top0
               /\ blast'.addr % blast'.align = 0
               /\ blast'.addr = top']_vars

\* C18 (amended): top never increases, and a successful call returns an
\* address in [base, original top] that is a multiple of the alignment and
\* the new top; the address is below the original top when the size is not
\* zero.
C18_BoundsClosed ==
    [][(base <= top0 /\ BCalled) =>
         /\ top' <= top
         /\ blast'.ok =>
               /\ base <= blast'.addr /\ blast'.addr <= top0
               /\ blast'.size > 0 => blast'.addr < top0
               /\ blast'.addr % blast'.align = 0
               /\ blast'.addr = top']_vars

\* A zero-sized layout served at the original top.
C18_Witness ==
    /\ base <= top0
    /\ blast.ok /\ blast.size = 0 /\ blast.align > 1
    /\ blast.addr = top0

\* C19: a call asking for more than top - base bytes fails; a failing call,
\* whichever way it fails, leaves top and base as they were.
C19_Exhaustion ==
    [][BCalled =>
         /\ (top - base < blast'.size) => ~blast'.ok
         /\ ~blast'.ok => (top' = top /\ base' = base)]_vars

\* Enough bytes between base and top, but none at the alignment asked for.
C19_Witness ==
    /\ bcalls >= 2
    /\ ~blast.ok
    /\ top - base >= blast.size
    /\ top < top0

\* C20: base <= top after every operation, and a successful call for
\* (size, align) lowers top by at least size and at most size + align - 1.
C20_Layout ==
    [][base <= top0 =>
         /\ base' <= top'
         /\ (BCalled /\ blast'.ok) =>
               /\ blast'.size <= top - top'
               /\ top - top' <= blast'.size + blast'.align - 1]_vars

\* A call that loses align - 1 bytes to the alignment.
C20_Witness ==
    /\ base <= top0
    /\ blast.ok /\ blast.align > 2
    /\ blast.before - top = blast.size + blast.align - 1

-----------------------------------------------------------------------------
(* Errors of the mapping operations, and the decomposition of addresses.    *)

\* C28: a map_range call on a range that fits in the 32-bit address space
\* returns Ok, OutOfMemory or AlreadyMapped: it never stops on an overflow of
\* its running virt / phys.
C28_RangeNoPanic ==
    (last.op = "map_range"
        /\ FitsIn32(last.virt, last.length) /\ FitsIn32(last.phys, last.length))
    => last.res \in {"Ok", "OutOfMemory", "AlreadyMapped"}

\* s and t hold the same word in every entry of every table, except for the
\* entries of `but` (pairs <<frame, index>>).
SameEntries(s, t, but) ==
    \A f \in DOMAIN s.mem \cup DOMAIN t.mem :
        /\ Table(s, f).default = Table(t, f).default
        /\ \A i \in DOMAIN Table(s, f).ent \cup DOMAIN Table(t, f).ent :
              <<f, i>> \in but \/ Entry(s, f, i) = Entry(t, f, i)

\* C29 (as stated): a map_4kib call that fails leaves every directory entry
\* and every page-table entry as it was, and allocates no page.
C29_FailureFrame ==
    [][(Called("map_4kib") /\ last'.res # "Ok") =>
         /\ SameEntries(Cur, Cur', {})
         /\ top' = top /\ root' = root]_vars

\* C29 (amended): a map_4kib call that fails allocates no page and leaves
\* every entry as it was, except that the directory entry of the window,
\* when it is a page table, gains the flags of the call.
C29_FailureFrameButFlags ==
    [][(Called("map_4kib") /\ last'.res # "Ok") =>
         LET d == extract_page_directory_index(last'.virt)
             b == DirEntry(Cur, last'.virt)
         IN  /\ SameEntries(Cur, Cur', {<<root, d>>})
             /\ top' = top /\ root' = root
             /\ DirEntry(Cur', last'.virt) =
                   IF is_present(b) /\ ~is_huge_page(b)
                   THEN WOr(b, last'.flags) ELSE b
             /\ last'.res = "OutOfMemory" => SameEntries(Cur, Cur', {})]_vars

\* A map_4kib call that failed and widened the flags of the directory entry.
C29_Witness ==
    /\ last.op = "map_4kib" /\ last.res = "AlreadyMapped"
    /\ \E e \in ok4k : e.virt = last.virt
    /\ WAnd(DirEntry(Cur, last.virt), ToWord(WRITABLE + USER_ACCESSIBLE))
         = ToWord(WRITABLE + USER_ACCESSIBLE)

\* C30: the directory index and the table index of an address are below
\* 1024 (the assertion of PageTableIndex::new holds for them), and
\* (dir << 22) | (table << 12) | (a & 0xFFF) is the address again.
C30_Decomposition ==
    \A a \in Probes \cup {last.virt, last.at} :
        LET dir == extract_page_directory_index(a)
            table == extract_page_table_index(a)
        IN  /\ dir \in 0 .. 1023
            /\ table \in 0 .. 1023
            /\ W(dir * 1024 + table, a.lo) = a

\* The last page of the address space, decomposed by a map_4kib call.
C30_Witness ==
    /\ last.op = "map_4kib" /\ last.res = "Ok"
    /\ last.virt = LastPage

-----------------------------------------------------------------------------
(* cpu/paging/mod.rs: paging::init(allocator, upper_bound), one statement   *)
(* per step.  oom() and panic!() never return: the routine stops there.     *)

\* The upper bounds init is called with: nothing, a few pages, whole 4 MiB
\* windows, and whole windows followed by a few pages.
UpperBounds == {Zero, PageAddr(2), PageAddr(1024), PageAddr(1026),
                PageAddr(3072), PageAddr(3074)}

InitPaging ==
    /\ mem = [f \in {} |-> 0]
    /\ garbage \in GarbageWords
    /\ root = Zero
    /\ top = ArenaTop
    /\ \E n \in 0 .. MaxPoolPages : base = ArenaTop - n * FOUR_KIB
    /\ overflow_checks \in BOOLEAN
    /\ phase = "boot"
    /\ calls = 0
    /\ nops = 0
    /\ last = NoCall
    /\ ok4k = {}
    /\ ok4m = {}
    /\ FramesIdle
    /\ BumpIdle
    /\ LaterIdle
    /\ ipc = "new"
    /\ upper_bound \in UpperBounds
    /\ page_directory = Zero
    /\ cr3 = Zero
    /\ cr4_pse \in BOOLEAN
    /\ cr0_pg = FALSE

\* What a step of init leaves alone, besides what it names.
InitFrame == UNCHANGED <<phase, nops, ok4k, ok4m, upper_bound, frameVars,
                         bumpVars, laterVars>>

\* let mut address_space = AddressSpace::new(..).unwrap_or_else(|_| oom());
InitNew ==
    /\ ipc = "new"
    /\ LET r == new(Cur)
       IN  /\ InstallMem(r.s)
           /\ ipc' = IF r.res = "Ok" THEN "map_range" ELSE "halted"
    /\ InitFrame
    /\ UNCHANGED <<last, page_directory, cr3, cr4_pse, cr0_pg>>

\* The map_range call of init, going on whatever map_range returned.
InitMapRange_unchecked ==
    /\ ipc = "map_range"
    /\ LET r == map_range(Cur, Zero, Zero, upper_bound, ToWord(WRITABLE),
                          overflow_checks)
       IN  /\ InstallMem(r.s)
           /\ last' = [op |-> "map_range", virt |-> Zero, phys |-> Zero,
                       length |-> upper_bound, flags |-> ToWord(WRITABLE),
                       res |-> r.res, at |-> r.at]
           /\ ipc' = "page_directory"
    /\ InitFrame
    /\ UNCHANGED <<page_directory, cr3, cr4_pse, cr0_pg>>

\* address_space.map_range(0, 0, upper_bound, WRITABLE)
\*     .unwrap_or_else(|err| handle_mapping_error(err));
InitMapRange ==
    /\ ipc = "map_range"
    /\ LET r == map_range(Cur, Zero, Zero, upper_bound, ToWord(WRITABLE),
                          overflow_checks)
       IN  /\ InstallMem(r.s)
           /\ last' = [op |-> "map_range", virt |-> Zero, phys |-> Zero,
                       length |-> upper_bound, flags |-> ToWord(WRITABLE),
                       res |-> r.res, at |-> r.at]
           /\ ipc' = IF r.res = "Ok" THEN "page_directory" ELSE "halted"
    /\ InitFrame
    /\ UNCHANGED <<page_directory, cr3, cr4_pse, cr0_pg>>

\* let page_directory = address_space.page_directory();
InitPageDirectory ==
    /\ ipc = "page_directory"
    /\ page_directory' = root
    /\ ipc' = "leak"
    /\ InitFrame
    /\ UNCHANGED <<mem, garbage, root, top, base, overflow_checks, calls,
                   last, cr3, cr4_pse, cr0_pg>>

\* address_space.leak();
InitLeak ==
    /\ ipc = "leak"
    /\ ipc' = "cr3"
    /\ InitFrame
    /\ UNCHANGED <<mem, garbage, root, top, base, overflow_checks, calls,
                   last, page_directory, cr3, cr4_pse, cr0_pg>>

\* mov cr3, {page_directory}
InitLoadCr3 ==
    /\ ipc = "cr3"
    /\ cr3' = page_directory
    /\ ipc' = "cr4"
    /\ InitFrame
    /\ UNCHANGED <<mem, garbage, root, top, base, overflow_checks, calls,
                   last, page_directory, cr4_pse, cr0_pg>>

\* mov {tmp}, cr4; or {tmp}, 0x00000010; mov cr4, {tmp}
InitSetPse ==
    /\ ipc = "cr4"
    /\ cr4_pse' = TRUE
    /\ ipc' = "cr0"
    /\ InitFrame
    /\ UNCHANGED <<mem, garbage, root, top, base, overflow_checks, calls,
                   last, page_directory, cr3, cr0_pg>>

\* mov {tmp}, cr0; or {tmp}, 0x80000000; mov cr0, {tmp}
InitSetPg ==
    /\ ipc = "cr0"
    /\ cr0_pg' = TRUE
    /\ ipc' = "done"
    /\ InitFrame
    /\ UNCHANGED <<mem, garbage, root, top, base, overflow_checks, calls,
                   last, page_directory, cr3, cr4_pse>>

NextInit ==
    \/ InitNew
    \/ InitMapRange
    \/ InitPageDirectory
    \/ InitLeak
    \/ InitLoadCr3
    \/ InitSetPse
    \/ InitSetPg

SpecInit == InitPaging /\ [][NextInit]_vars

\* The statements of init after the identity range is mapped.
AfterMapping == {"page_directory", "leak", "cr3", "cr4", "cr0", "done"}

\* C25: init reads the page directory address and leaks the address space
\* only when the root exists and the whole range was mapped without error;
\* CR3 is loaded only then, with that 4 KiB-aligned address; CR4.PSE is set
\* before CR0.PG; after an error init stops with CR3 and CR0.PG untouched.
C25_BringUpOrder ==
    /\ ipc \in AfterMapping =>
          /\ calls >= 1 /\ root \in DOMAIN mem
          /\ last.op = "map_range" /\ last.res = "Ok"
          /\ last.length = upper_bound /\ last.at = upper_bound
    /\ ipc \in {"leak", "cr3", "cr4", "cr0", "done"} => page_directory = root
    /\ ipc \in {"cr4", "cr0", "done"} => cr3 = root
    /\ cr3 # Zero => (ipc \in {"cr4", "cr0", "done"} /\ cr3.lo = 0)
    /\ cr0_pg => (cr4_pse /\ cr3 = root /\ ipc = "done")
    /\ ipc = "done" => cr0_pg
    /\ (last.op = "map_range" /\ last.res # "Ok") => ipc = "halted"
    /\ ipc = "halted" => (~cr0_pg /\ cr3 = Zero /\ page_directory = Zero)

\* Paging enabled over a range of whole windows and two more pages.
C25_Witness ==
    /\ ipc = "done"
    /\ cr0_pg
    /\ upper_bound = PageAddr(3074)

\* The pages looked at below an upper bound: the first and last pages of the
\* windows, and the pages around the ends of the ranges.
BootPages == {0, 1, 1023, 1024, 1025, 2047, 2048, 3071, 3072, 3073}
BootProbes == {W(pg, off) : pg \in BootPages, off \in Offsets}

\* C26: once init has mapped [0, upper_bound) without error, the page
\* directory translates every address below upper_bound to itself.
C26_IdentityMap ==
    ipc \in AfterMapping =>
        \A a \in BootProbes :
            a.pg < upper_bound.pg => translate(Cur, a) = Some(a)

-----------------------------------------------------------------------------
(* state/system_info.rs: the conversion of the bootloader's memory map.     *)
(* A u64 is kept as its two 32-bit halves.                                  *)

\* multiboot::MemMapType
AVAILABLE == 1
ACPI_RECLAIMABLE == 3
PRESERVED == 4
DEFECTIVE == 5

\* Entries converted per behaviour.
MaxMapEntries == 2

\* The type codes a bootloader hands over: the known ones, RESERVED (2), 0,
\* and codes the protocol does not define.
TypeCodes == {0, AVAILABLE, 2, ACPI_RECLAIMABLE, PRESERVED, DEFECTIVE, 6,
              2147483647}

\* The halves of the addresses and lengths.
Halves == {0, 1048576}

MemoryMapType_from_multiboot(t) ==
    CASE t = AVAILABLE -> "Available"
      [] t = ACPI_RECLAIMABLE -> "Available"
      [] t = DEFECTIVE -> "Defective"
      [] t = PRESERVED -> "Preserved"
      [] OTHER -> "Reserved"

MemoryMapEntry_from_multiboot(e) ==
    [base |-> [high |-> e.addr_high, low |-> e.addr_low],
     length |-> [high |-> e.len_high, low |-> e.len_low],
     ty |-> MemoryMapType_from_multiboot(e.ty)]

InitMemMap ==
    /\ PagingIdle
    /\ top = 0
    /\ base = 0
    /\ FramesIdle
    /\ BumpIdle
    /\ InitIdle
    /\ MutexIdle
    /\ OnceIdle
    /\ EntryIdle
    /\ TermIdle
    /\ CriticalIdle
    /\ mm_src = << >>
    /\ memory_map = << >>

ConvertEntry ==
    /\ Len(mm_src) < MaxMapEntries
    /\ \E ty \in TypeCodes, lo \in Halves, hi \in Halves :
         LET e == [addr_low |-> lo, addr_high |-> 0, len_low |-> 0,
                   len_high |-> hi, ty |-> ty]
         IN  /\ mm_src' = Append(mm_src, e)
             /\ memory_map' = Append(memory_map,
                                     MemoryMapEntry_from_multiboot(e))
    /\ UNCHANGED <<pagingVars, frameVars, bumpVars, initVars, mutexVars,
                   onceVars, entryVars, termVars,
                   csVars>>

NextMemMap == ConvertEntry

SpecMemMap == InitMemMap /\ [][NextMemMap]_vars

\* The kernel type of the same meaning as a firmware type code.
SameMeaning(t) ==
    CASE t = 1 -> "Available"
      [] t = 3 -> "AcpiReclaimable"
      [] t = 4 -> "Preserved"
      [] t = 5 -> "Defective"
      [] OTHER -> "Reserved"

\* C24: from_multiboot maps AVAILABLE to Available, ACPI_RECLAIMABLE to
\* AcpiReclaimable, PRESERVED to Preserved, DEFECTIVE to Defective and every
\* other code to Reserved.
C24_TypeNormalisation ==
    \A i \in DOMAIN memory_map :
        memory_map[i].ty = SameMeaning(mm_src[i].ty)

-----------------------------------------------------------------------------
(* sync/mutex.rs: the Mutex that fails instead of waiting.  RawMutex keeps  *)
(* the Location of the caller that locked it in a build with                *)
(* debug_assertions (null when unlocked) and a boolean otherwise; raw is 0  *)
(* for null / false, 1 for true, and the caller's location otherwise.       *)

\* Calls made on the Mutex per behaviour.
MaxMutexCalls == 4

\* The execution contexts: the boot path and interrupt handlers.
MutexContexts == {1, 2, 3}

\* Location::caller() of a call made by context c.
LocationOf(c) == 10 + c

\* RawMutex::try_lock with an unconditional swap.
RawMutex_try_lock_swap(r, dbg, loc) ==
    IF r = 0 THEN [res |-> "Ok", raw |-> IF dbg THEN loc ELSE 1]
    ELSE [res |-> "CantLock", raw |-> IF dbg THEN loc ELSE 1]

\* compare_exchange(null, caller) / compare_exchange(false, true)
RawMutex_try_lock(r, dbg, loc) ==
    IF r = 0 THEN [res |-> "Ok", raw |-> IF dbg THEN loc ELSE 1]
    ELSE [res |-> "CantLock", raw |-> r]

\* RawMutex::unlock that stores nothing.
RawMutex_unlock_keep(r) == r

\* store(null) / store(false)
RawMutex_unlock(r) == 0

\* A Mutex and its guards are the record [raw, guards].
Mutex_try_lock(m, dbg, c) ==
    LET r == RawMutex_try_lock(m.raw, dbg, LocationOf(c))
    IN  [res |-> r.res,
         m |-> [raw |-> r.raw,
                guards |-> IF r.res = "Ok" THEN m.guards \cup {c}
                           ELSE m.guards]]

\* self.try_lock().unwrap()
Mutex_lock(m, dbg, c) ==
    LET r == Mutex_try_lock(m, dbg, c)
    IN  [res |-> IF r.res = "Ok" THEN "Ok" ELSE "panic", m |-> r.m]

\* Drop for MutexGuard
MutexGuard_drop(m, c) ==
    [raw |-> RawMutex_unlock(m.raw), guards |-> m.guards \ {c}]

MCur == [raw |-> raw, guards |-> guards]

\* A panic stops the kernel.
MHalted == mlog # << >> /\ mlog[Len(mlog)].res = "panic"

InitMutex ==
    /\ PagingIdle
    /\ top = 0
    /\ base = 0
    /\ FramesIdle
    /\ BumpIdle
    /\ InitIdle
    /\ MemMapIdle
    /\ OnceIdle
    /\ EntryIdle
    /\ TermIdle
    /\ CriticalIdle
    /\ raw = 0
    /\ debug_assertions \in BOOLEAN
    /\ guards = {}
    /\ mlog = << >>

MutexFrame ==
    UNCHANGED <<debug_assertions, pagingVars, frameVars, bumpVars, initVars,
                memMapVars, onceVars, entryVars, termVars,
                csVars>>

MutexStep(c, op, r) ==
    /\ raw' = r.m.raw
    /\ guards' = r.m.guards
    /\ mlog' = Append(mlog, [ctx |-> c, op |-> op, res |-> r.res])
    /\ MutexFrame

TryLock ==
    /\ ~MHalted
    /\ Len(mlog) < MaxMutexCalls
    /\ \E c \in MutexContexts :
         MutexStep(c, "try_lock", Mutex_try_lock(MCur, debug_assertions, c))

Lock ==
    /\ ~MHalted
    /\ Len(mlog) < MaxMutexCalls
    /\ \E c \in MutexContexts :
         MutexStep(c, "lock", Mutex_lock(MCur, debug_assertions, c))

DropGuard ==
    /\ ~MHalted
    /\ Len(mlog) < MaxMutexCalls
    /\ \E c \in guards :
         MutexStep(c, "drop", [res |-> "Ok", m |-> MutexGuard_drop(MCur, c)])

NextMutex == TryLock \/ Lock \/ DropGuard

SpecMutex == InitMutex /\ [][NextMutex]_vars

\* The step is a call on the Mutex.
MCalled == Len(mlog') = Len(mlog) + 1

\* C21: an attempt on a Mutex that is held fails in the call itself, with
\* CantLock from try_lock and a panic from lock(); it leaves the lock with
\* its holder, and the holder's release unlocks it.
C21_FailFast ==
    [][MCalled =>
         LET e == mlog'[Len(mlog')]
         IN  /\ (e.op \in {"try_lock", "lock"} /\ guards # {}) =>
                   /\ e.res = IF e.op = "try_lock" THEN "CantLock" ELSE "panic"
                   /\ raw # 0
                   /\ raw' = raw
                   /\ guards' = guards
             /\ e.op = "drop" =>
                   /\ e.ctx \in guards
                   /\ raw' = 0
                   /\ guards' = {}]_vars

\* A failed attempt by another context, then the holder's release.
C21_Witness ==
    /\ raw = 0
    /\ \E i, j, k \in DOMAIN mlog :
          /\ i < j /\ j < k
          /\ mlog[i].res = "Ok" /\ mlog[i].op \in {"try_lock", "lock"}
          /\ mlog[j].res = "CantLock" /\ mlog[j].ctx # mlog[i].ctx
          /\ mlog[k].op = "drop" /\ mlog[k].ctx = mlog[i].ctx

-----------------------------------------------------------------------------
(* utility/once_cell.rs: the cell of the global state.  A cell is the       *)
(* record [state, value]; a call in progress is a frame that records the    *)
(* operation, its argument and the statement it stands before.  Each step   *)
(* is one atomic access of `state` or the code between two of them.  A      *)
(* spurious failure of compare_exchange_weak and a turn of the waiting loop *)
(* change nothing: they are stuttering steps.                               *)

UNINIT == 0
LOCKED == 1
INIT == 2

\* OnceCell calls started per behaviour.
MaxOnceCalls == 3

\* The execution contexts: the boot path (1) and interrupt handlers.
OnceContexts == {1, 2}

\* The values callers try to store; an initializer given 0 returns an error.
OnceValues == {7, 8}

IdleFrame == [op |-> "none", arg |-> 0, pc |-> "idle", slot |-> FALSE,
              res |-> "none", val |-> 0, begun |-> UNINIT, solo |-> FALSE]

\* get(): is_initialized(), then the value.
OnceGet(cell, fr) ==
    [cell |-> cell,
     fr |-> IF cell.state = INIT
            THEN [fr EXCEPT !.res = "Some", !.val = cell.value, !.pc = "ret"]
            ELSE [fr EXCEPT !.res = "None", !.pc = "ret"]]

\* get_or_try_init: the fast path.
OnceFast(cell, fr) ==
    [cell |-> cell,
     fr |-> IF cell.state = INIT
            THEN [fr EXCEPT !.res = "Ok", !.val = cell.value, !.pc = "ret"]
            ELSE [fr EXCEPT !.pc = "cas"]]

\* An exchange that also succeeds on a cell that is LOCKED.
OnceCas_barge(cell, fr) ==
    IF cell.state \in {UNINIT, LOCKED}
    THEN [cell |-> [cell EXCEPT !.state = LOCKED],
          fr |-> [fr EXCEPT !.pc = "init"]]
    ELSE [cell |-> cell,
          fr |-> [fr EXCEPT !.res = "Ok", !.val = cell.value, !.pc = "ret"]]

\* compare_exchange_weak(UNINIT, LOCKED) and the match on its result.
OnceCas(cell, fr) ==
    CASE cell.state = UNINIT ->
            [cell |-> [cell EXCEPT !.state = LOCKED],
             fr |-> [fr EXCEPT !.pc = "init"]]
      [] cell.state = LOCKED ->
            [cell |-> cell, fr |-> [fr EXCEPT !.pc = "spin"]]
      [] OTHER ->
            [cell |-> cell,
             fr |-> [fr EXCEPT !.res = "Ok", !.val = cell.value, !.pc = "ret"]]

\* let value = f()?; with a guard that restores nothing on an error.
OnceInit_stuck(cell, fr) ==
    IF fr.arg = 0
    THEN [cell |-> cell, fr |-> [fr EXCEPT !.res = "Err", !.pc = "ret"]]
    ELSE [cell |-> cell, fr |-> [fr EXCEPT !.slot = FALSE, !.pc = "write"]]

\* let value = f()?;  On an error the guard stores UNINIT back.
OnceInit(cell, fr) ==
    IF fr.arg = 0
    THEN [cell |-> [cell EXCEPT !.state = UNINIT],
          fr |-> [fr EXCEPT !.res = "Err", !.pc = "ret"]]
    ELSE [cell |-> cell, fr |-> [fr EXCEPT !.slot = FALSE, !.pc = "write"]]

\* (*self.value.get()).write(value); guard.to_restore = INIT;
OnceWrite(cell, fr) ==
    [cell |-> [cell EXCEPT !.value = fr.arg], fr |-> [fr EXCEPT !.pc = "unlock"]]

\* return Ok(get_unchecked()), the guard storing INIT on the way out.
OnceUnlock(cell, fr) ==
    [cell |-> [cell EXCEPT !.state = INIT],
     fr |-> [fr EXCEPT !.res = "Ok", !.val = cell.value, !.pc = "ret"]]

\* while self.state.load(Relaxed) == LOCKED {}
OnceSpin(cell, fr) ==
    [cell |-> cell,
     fr |-> IF cell.state = LOCKED THEN fr ELSE [fr EXCEPT !.pc = "reload"]]

\* match self.state.load(Acquire)
OnceReload(cell, fr) ==
    [cell |-> cell,
     fr |-> IF cell.state = INIT
            THEN [fr EXCEPT !.res = "Ok", !.val = cell.value, !.pc = "ret"]
            ELSE [fr EXCEPT !.pc = "cas"]]

\* The end of set() with Ok whatever the slot holds.
OnceRet_ok(fr) ==
    IF fr.op \in {"set", "set_expect"}
    THEN [fr EXCEPT !.res = "Ok", !.pc = "done"]
    ELSE [fr EXCEPT !.pc = "done"]

\* The end of the call.  set(): match slot { Some(err) => Err(err), None =>
\* Ok(()) }; the boot code: .ok().expect("global state already initialized").
OnceRet(fr) ==
    IF fr.op \in {"set", "set_expect"}
    THEN IF fr.slot
         THEN [fr EXCEPT !.res = IF fr.op = "set" THEN "Err" ELSE "panic",
                         !.val = fr.arg, !.pc = "done"]
         ELSE [fr EXCEPT !.res = "Ok", !.pc = "done"]
    ELSE [fr EXCEPT !.pc = "done"]

\* One step of the call of frame fr.
OnceStep(cell, fr) ==
    CASE fr.pc = "start" ->
            IF fr.op = "get" THEN OnceGet(cell, fr) ELSE OnceFast(cell, fr)
      [] fr.pc = "cas" -> OnceCas(cell, fr)
      [] fr.pc = "init" -> OnceInit(cell, fr)
      [] fr.pc = "write" -> OnceWrite(cell, fr)
      [] fr.pc = "unlock" -> OnceUnlock(cell, fr)
      [] fr.pc = "spin" -> OnceSpin(cell, fr)
      [] fr.pc = "reload" -> OnceReload(cell, fr)
      [] fr.pc = "ret" -> [cell |-> cell, fr |-> OnceRet(fr)]
      [] OTHER -> [cell |-> cell, fr |-> fr]

OCur == [state |-> ostate, value |-> ovalue]

\* A panic stops the kernel.
OHalted == olast.res = "panic"

\* The calls in progress.
Active == {c \in DOMAIN ocall : ocall[c].pc # "idle"}

\* Context c has the processor: on a single core, a handler runs to its end
\* before what it interrupted goes on.
Runs(c) == single_core => \A d \in Active : d <= c

InitOnce ==
    /\ PagingIdle
    /\ top = 0
    /\ base = 0
    /\ FramesIdle
    /\ BumpIdle
    /\ InitIdle
    /\ MemMapIdle
    /\ MutexIdle
    /\ EntryIdle
    /\ TermIdle
    /\ CriticalIdle
    /\ ostate = UNINIT
    /\ ovalue = 0
    /\ ocall = [c \in OnceContexts |-> IdleFrame]
    /\ olast = NoOnce
    /\ ocount = 0
    /\ single_core \in BOOLEAN

OnceFrame ==
    UNCHANGED <<single_core, pagingVars, frameVars, bumpVars, initVars,
                memMapVars, mutexVars, entryVars, termVars,
                csVars>>

\* Context c calls op(arg).
OnceCall(c, op, arg) ==
    /\ ~OHalted
    /\ ocount < MaxOnceCalls
    /\ ocall[c].pc = "idle"
    /\ Runs(c)
    /\ ocall' = [d \in OnceContexts |->
                   IF d = c
                   THEN [op |-> op, arg |-> arg, pc |-> "start",
                         slot |-> op \in {"set", "set_expect"},
                         res |-> "none", val |-> 0, begun |-> ostate,
                         solo |-> Active = {}]
                   ELSE [ocall[d] EXCEPT !.solo = FALSE]]
    /\ ocount' = ocount + 1
    /\ UNCHANGED <<ostate, ovalue, olast>>
    /\ OnceFrame

CallGet == \E c \in OnceContexts : OnceCall(c, "get", 0)

CallSet == \E c \in OnceContexts, v \in OnceValues : OnceCall(c, "set", v)

CallGetOrInit ==
    \E c \in OnceContexts, v \in OnceValues : OnceCall(c, "get_or_init", v)

CallGetOrTryInit ==
    \E c \in OnceContexts, v \in OnceValues \cup {0} :
        OnceCall(c, "get_or_try_init", v)

\* GLOBAL.set(..).ok().expect("global state already initialized")
CallSetExpect ==
    \E c \in OnceContexts, v \in OnceValues : OnceCall(c, "set_expect", v)

\* The call of some context goes on by one step; at its end it is logged.
OnceAdvance ==
    /\ ~OHalted
    /\ \E c \in Active :
         /\ Runs(c)
         /\ LET r == OnceStep(OCur, ocall[c])
            IN  /\ r.fr # ocall[c]
                /\ ostate' = r.cell.state
                /\ ovalue' = r.cell.value
                /\ IF r.fr.pc = "done"
                   THEN /\ olast' = [ctx |-> c, op |-> r.fr.op,
                                    arg |-> r.fr.arg, res |-> r.fr.res,
                                    val |-> r.fr.val, begun |-> r.fr.begun,
                                    solo |-> r.fr.solo]
                        /\ ocall' = [ocall EXCEPT ![c] = IdleFrame]
                   ELSE /\ olast' = olast
                        /\ ocall' = [ocall EXCEPT ![c] = r.fr]
    /\ UNCHANGED ocount
    /\ OnceFrame

NextOnce ==
    \/ CallGet
    \/ CallSet
    \/ CallGetOrInit
    \/ CallGetOrTryInit
    \/ CallSetExpect
    \/ OnceAdvance

SpecOnce == InitOnce /\ [][NextOnce]_vars

\* The same, with steps taken as long as one is possible.
SpecOnceLive == SpecOnce /\ WF_vars(NextOnce)

\* The step ends the call of context c.
OReturned(c) == c \in Active /\ ocall'[c].pc = "idle"

\* The operations that store through set().
SetOps == {"set", "set_expect"}

\* C22: one-time initialization.  A set(v) that finds the cell empty and runs
\* alone returns Ok and leaves v stored; once the cell is initialized its state
\* and value never change again, and a get() that starts then returns the
\* stored value; a set(w) that starts on an initialized cell gives w back as
\* Err(w), and the boot code's .ok().expect(..) turns that Err into a fatal
\* stop.
C22_OneTimeInit ==
    [][/\ ostate = INIT => (ostate' = INIT /\ ovalue' = ovalue)
       /\ \A c \in OnceContexts :
            OReturned(c) =>
              /\ olast'.ctx = c
              /\ (olast'.op \in SetOps /\ olast'.res = "Ok")
                    => (ostate' = INIT /\ ovalue' = olast'.arg)
              /\ (olast'.op \in SetOps /\ olast'.solo
                    /\ olast'.begun = UNINIT)
                    => olast'.res = "Ok"
              /\ (olast'.op = "set" /\ olast'.begun = INIT)
                    => (olast'.res = "Err" /\ olast'.val = olast'.arg)
              /\ (olast'.op = "set_expect" /\ olast'.begun = INIT)
                    => (olast'.res = "panic" /\ OHalted')
              /\ (olast'.op = "get" /\ olast'.begun = INIT)
                    => (olast'.res = "Some" /\ olast'.val = ovalue)
      ]_vars

\* A second set(w) has come back with Err(w) while the cell keeps the other
\* value, stored by the first.
C22_Witness ==
    /\ olast.op = "set"
    /\ olast.res = "Err"
    /\ olast.begun = INIT
    /\ olast.val = olast.arg
    /\ ostate = INIT
    /\ ovalue # olast.arg
    /\ ocount = 2

\* C23: the guard of the cell is non-blocking.  Every call in progress whose
\* context has the processor can take its next step whatever the other
\* contexts do: it never stands at a point where only another context's
\* progress lets it go on.
C23_NonBlocking ==
    \A c \in Active :
        Runs(c) => OnceStep(OCur, ocall[c]).fr # ocall[c]

-----------------------------------------------------------------------------
(* entry_point2 (main.rs), from the boot allocator to the main loop, and the
   keyboard interrupt handler (cpu/idt/pic.rs).  The boot path is context 1
   of the global OnceCell. *)

\* ArrayVec<u8, 8>
ScancodeCapacity == 8

InitEntry ==
    /\ mem = [f \in {} |-> 0]
    /\ garbage \in GarbageWords
    /\ root = Zero
    /\ top = 0
    /\ base = 0
    /\ overflow_checks \in BOOLEAN
    /\ phase = "boot"
    /\ calls = 0
    /\ nops = 0
    /\ last = NoCall
    /\ ok4k = {}
    /\ ok4m = {}
    /\ FramesIdle
    /\ BumpIdle
    /\ InitIdle
    /\ MemMapIdle
    /\ raw = 0
    /\ debug_assertions \in BOOLEAN
    /\ guards = {}
    /\ mlog = << >>
    /\ ostate = UNINIT
    /\ ovalue = 0
    /\ ocall = [c \in OnceContexts |-> IdleFrame]
    /\ olast = NoOnce
    /\ ocount = 0
    /\ single_core = TRUE
    /\ epc = "allocator"
    /\ interrupts = FALSE
    /\ scancodes = 0
    /\ isr = FALSE
    /\ estop = "none"
    /\ TermIdle
    /\ CriticalIdle

\* What a step of entry_point2 leaves alone, besides what it names.
EntryFrame == UNCHANGED <<phase, nops, ok4k, ok4m, single_core, frameVars,
                          bumpVars, initVars, memMapVars, termVars,
                          csVars, debug_assertions, mlog>>

\* The variables of the address space and of the boot allocator.
entryMemVars == <<mem, garbage, root, top, base, overflow_checks, calls, last>>

\* The variables of the global OnceCell.
entryCellVars == <<ostate, ovalue, ocall, olast, ocount>>

\* The TERMINAL mutex and the PIC.
entryLockVars == <<raw, guards, isr>>

\* die(), oom() and the panic handler: cli, a message, no return.
EntryStop(why) ==
    /\ epc' = "halted"
    /\ interrupts' = FALSE
    /\ estop' = why

\* The statement is done and entry_point2 goes on at the statement pc.
EntryGoes(pc) ==
    /\ epc' = pc
    /\ UNCHANGED <<interrupts, estop>>

\* let mut init_allocator = InitAllocator::new(base, top) over the largest
\* available segment.
EntryAllocator ==
    /\ epc = "allocator"
    /\ top' = ArenaTop
    /\ \E n \in 0 .. MaxPoolPages : base' = ArenaTop - n * FOUR_KIB
    /\ EntryGoes("new")
    /\ EntryFrame
    /\ UNCHANGED <<mem, garbage, root, overflow_checks, calls, last,
                   entryCellVars, entryLockVars, scancodes>>

\* let mut address_space = AddressSpace::new(..).unwrap_or_else(|_| oom());
EntryNew ==
    /\ epc = "new"
    /\ LET r == new(Cur)
       IN  /\ InstallMem(r.s)
           /\ IF r.res = "Ok"
              THEN EntryGoes("map_range")
              ELSE EntryStop("out of memory")
    /\ EntryFrame
    /\ UNCHANGED <<last, entryCellVars, entryLockVars, scancodes>>

\* address_space.map_range(0, 0, upper_bound & !0xFFF, WRITABLE)
\*     .unwrap_or_else(|err| handle_mapping_error(err));
EntryMapRange ==
    /\ epc = "map_range"
    /\ LET length == ToWord(AlignDown(ArenaTop, FOUR_KIB))
           r == map_range(Cur, Zero, Zero, length, ToWord(WRITABLE),
                          overflow_checks)
       IN  /\ InstallMem(r.s)
           /\ last' = [op |-> "map_range", virt |-> Zero, phys |-> Zero,
                       length |-> length, flags |-> ToWord(WRITABLE),
                       res |-> r.res, at |-> r.at]
           /\ IF r.res = "Ok"
              THEN EntryGoes("report")
              ELSE EntryStop("mapping error")
    /\ EntryFrame
    /\ UNCHANGED <<entryCellVars, entryLockVars, scancodes>>

\* The reads of init_allocator.top() and init_allocator.base() for the log.
EntryReport ==
    /\ epc = "report"
    /\ EntryGoes("set")
    /\ EntryFrame
    /\ UNCHANGED <<entryMemVars, entryCellVars, entryLockVars, scancodes>>

\* sti() placed before the write of the global state.
EntrySti_early ==
    /\ epc = "set"
    /\ ~interrupts
    /\ interrupts' = TRUE
    /\ EntryFrame
    /\ UNCHANGED <<entryMemVars, entryCellVars, entryLockVars, epc, estop,
                   scancodes>>

\* GLOBAL.set(Global { .. }): the call is made.
EntrySetCall ==
    /\ epc = "set"
    /\ \E v \in OnceValues :
         ocall' = [ocall EXCEPT ![1] =
                     [op |-> "set_expect", arg |-> v, pc |-> "start",
                      slot |-> TRUE, res |-> "none", val |-> 0,
                      begun |-> ostate, solo |-> Active = {}]]
    /\ ocount' = ocount + 1
    /\ EntryGoes("in_set")
    /\ EntryFrame
    /\ UNCHANGED <<entryMemVars, ostate, ovalue, olast, entryLockVars,
                   scancodes>>

\* GLOBAL.set(..) goes on by one step; .ok().expect(..) on its result.
EntrySetStep ==
    /\ epc = "in_set"
    /\ LET r == OnceStep(OCur, ocall[1])
       IN  /\ r.fr # ocall[1]
           /\ ostate' = r.cell.state
           /\ ovalue' = r.cell.value
           /\ IF r.fr.pc = "done"
              THEN /\ olast' = [ctx |-> 1, op |-> r.fr.op, arg |-> r.fr.arg,
                               res |-> r.fr.res, val |-> r.fr.val,
                               begun |-> r.fr.begun, solo |-> r.fr.solo]
                   /\ ocall' = [ocall EXCEPT ![1] = IdleFrame]
                   /\ IF r.fr.res = "Ok"
                      THEN EntryGoes("sti")
                      ELSE EntryStop("global state already initialized")
              ELSE /\ olast' = olast
                   /\ ocall' = [ocall EXCEPT ![1] = r.fr]
                   /\ UNCHANGED <<epc, interrupts, estop>>
    /\ EntryFrame
    /\ UNCHANGED <<entryMemVars, ocount, entryLockVars, scancodes>>

\* sti();
EntrySti ==
    /\ epc = "sti"
    /\ interrupts' = TRUE
    /\ epc' = "welcome"
    /\ EntryFrame
    /\ UNCHANGED <<entryMemVars, entryCellVars, entryLockVars, estop,
                   scancodes>>

\* cpu/idt/pic.rs keyboard(), entered through an interrupt gate: with the
\* output buffer of the PS/2 controller empty, printk!(..) and return; else
\* TERMINAL.lock().buffer_scancode(..), printk!(..) when the buffer was full,
\* and end_of_interrupt.  printk! locks TERMINAL; every guard is dropped at
\* the end of its statement.  The handler is context 2 of the Mutex.
keyboard(m, dbg, n, full) ==
    LET l == Mutex_lock(m, dbg, 2)
        idle == MutexGuard_drop(l.m, 2)
        again == Mutex_lock(idle, dbg, 2)
    IN  CASE l.res = "panic" ->
                [res |-> "panic", m |-> l.m, scancodes |-> n, eoi |-> FALSE]
          [] ~full ->
                [res |-> "return", m |-> idle, scancodes |-> n,
                 eoi |-> FALSE]
          [] n < ScancodeCapacity ->
                [res |-> "return", m |-> idle, scancodes |-> n + 1,
                 eoi |-> TRUE]
          [] again.res = "panic" ->
                [res |-> "panic", m |-> again.m, scancodes |-> n,
                 eoi |-> FALSE]
          [] OTHER ->
                [res |-> "return", m |-> MutexGuard_drop(again.m, 2),
                 scancodes |-> n, eoi |-> TRUE]

\* The boot path takes TERMINAL.lock() at the start of a statement.
EntryLock(pc) ==
    LET l == Mutex_lock(MCur, debug_assertions, 1)
    IN  /\ raw' = l.m.raw
        /\ guards' = l.m.guards
        /\ IF l.res = "Ok" THEN EntryGoes(pc) ELSE EntryStop("CantLock")

\* The guard of the boot path is dropped at the end of the statement.
EntryUnlock ==
    LET m == MutexGuard_drop(MCur, 1)
    IN  raw' = m.raw /\ guards' = m.guards

\* let _ = TERMINAL.lock() ..
EntryWelcomeLock ==
    /\ epc = "welcome"
    /\ EntryLock("in_welcome")
    /\ EntryFrame
    /\ UNCHANGED <<entryMemVars, entryCellVars, isr, scancodes>>

\* .. .write_str(include_str!("welcome.txt"));
EntryWelcome ==
    /\ epc = "in_welcome"
    /\ EntryUnlock
    /\ EntryGoes("hlt")
    /\ EntryFrame
    /\ UNCHANGED <<entryMemVars, entryCellVars, isr, scancodes>>

\* A keyboard interrupt (IRQ1) is delivered at any point after sti() unless
\* the PIC still holds IRQ1 in service; the handler runs to its end, and a
\* hlt() ends with it.
EntryKeyboard ==
    /\ interrupts
    /\ ~isr
    /\ epc \in {"welcome", "in_welcome", "hlt", "take", "in_take"}
    /\ \E full \in BOOLEAN :
         LET r == keyboard(MCur, debug_assertions, scancodes, full)
         IN  /\ raw' = r.m.raw
             /\ guards' = r.m.guards
             /\ scancodes' = r.scancodes
             /\ isr' = ~r.eoi
             /\ IF r.res = "panic"
                THEN EntryStop("CantLock")
                ELSE EntryGoes(IF epc = "hlt" THEN "take" ELSE epc)
    /\ EntryFrame
    /\ UNCHANGED <<entryMemVars, entryCellVars>>

\* TERMINAL.lock() ..
EntryTakeLock ==
    /\ epc = "take"
    /\ EntryLock("in_take")
    /\ EntryFrame
    /\ UNCHANGED <<entryMemVars, entryCellVars, isr, scancodes>>

\* .. .take_buffered_scancodes(&mut ReadLineImpl): the buffer is emptied; a
\* submitted command line starts with GLOBAL.get().unwrap(), and the command
\* "panic" panics.
EntryTake ==
    /\ epc = "in_take"
    /\ scancodes' = 0
    /\ EntryUnlock
    /\ \E command \in {"none", "system", "panic"} :
         CASE command = "panic" /\ scancodes > 0 -> EntryStop("panic")
           [] command # "none" /\ scancodes > 0
                 /\ OnceGet(OCur, IdleFrame).fr.res = "None" ->
                 EntryStop("unwrap")
           [] OTHER -> EntryGoes("hlt")
    /\ EntryFrame
    /\ UNCHANGED <<entryMemVars, entryCellVars, isr>>

NextEntry ==
    \/ EntryAllocator
    \/ EntryNew
    \/ EntryMapRange
    \/ EntryReport
    \/ EntrySetCall
    \/ EntrySetStep
    \/ EntrySti
    \/ EntryWelcomeLock
    \/ EntryWelcome
    \/ EntryKeyboard
    \/ EntryTakeLock
    \/ EntryTake

SpecEntry == InitEntry /\ [][NextEntry]_vars

\* C33: once interrupts are enabled, no interleaving of the boot path and
\* the main loop with the keyboard interrupt handler makes a TERMINAL.lock()
\* call find the mutex already held: the kernel never stops on the CantLock
\* panic of Mutex::lock.
C33_LockRaceFree == estop # "CantLock"

\* C39: every invocation of the keyboard interrupt handler sends the
\* end-of-interrupt for IRQ1 before it returns: whenever the handler has
\* returned, the PIC does not hold IRQ1 in service.
C39_Acknowledged == (estop # "CantLock") => ~isr

\* The statements of entry_point2 that come before sti().
BeforeSti == {"allocator", "new", "map_range", "report", "set", "in_set",
              "sti"}

\* C27: in the boot sequence every step that changes the page directory or
\* its tables, the boot bump allocator or the global cell is taken with
\* interrupts disabled, at a statement before sti(); interrupts are enabled
\* only once the range is mapped and the global state written, and from then
\* on the boot path changes none of them.
C27_MutationBeforeSti ==
    [][/\ (entryMemVars' # entryMemVars \/ ostate' # ostate
              \/ ovalue' # ovalue)
            => (~interrupts /\ ~interrupts' /\ epc \in BeforeSti)
       /\ (~interrupts /\ interrupts')
            => /\ epc = "sti"
               /\ ostate = INIT
               /\ ovalue \in OnceValues
               /\ root # Zero
               /\ last.op = "map_range" /\ last.res = "Ok"
       /\ interrupts => epc \notin BeforeSti
      ]_vars

\* The main loop runs with interrupts enabled and a scancode buffered, after
\* the address space was built and the global state written.
C27_Witness ==
    /\ interrupts
    /\ epc = "in_take"
    /\ scancodes > 0
    /\ ostate = INIT
    /\ root # Zero
    /\ top < ArenaTop
    /\ mem # [f \in {} |-> 0]

-----------------------------------------------------------------------------
(* The InitAllocator again: the regions it hands out. *)

\* C31: the bytes [addr, addr + size) of a successful try_allocate_raw were
\* handed out by no earlier successful call and lie inside
\* [base, original top).
C31_Disjoint ==
    [][(BCalled /\ blast'.ok) =>
         /\ Region(blast'.addr, blast'.size) \cap bused = {}
         /\ Region(blast'.addr, blast'.size) \subseteq base .. top0 - 1]_vars

\* A third region was handed out below two others, with a gap left by the
\* alignment.
C31_Witness ==
    /\ bcalls = 3
    /\ blast.ok /\ blast.size > 0
    /\ Cardinality(bused) > blast.size
    /\ Cardinality(bused) < top0 - top
    /\ bused \subseteq base .. top0 - 1

-----------------------------------------------------------------------------
(* The Mutex again: mutual exclusion. *)

\* C32: at most one MutexGuard exists at any time; try_lock (and lock, which
\* is try_lock unwrapped) succeeds exactly when no guard exists, and then the
\* caller holds the only guard; the drop of the guard leaves no guard, so
\* that the next try_lock succeeds.
C32_MutualExclusion ==
    [][/\ Cardinality(guards) <= 1
       /\ Cardinality(guards') <= 1
       /\ MCalled =>
            LET e == mlog'[Len(mlog')]
            IN  /\ e.op \in {"try_lock", "lock"} =>
                      /\ e.res = "Ok" <=> guards = {}
                      /\ e.res = "Ok" => guards' = {e.ctx}
                      /\ e.res # "Ok" => guards' = guards
                /\ e.op = "drop" => guards' = {}
      ]_vars

\* One context took the lock and dropped its guard, and another context's
\* try_lock then succeeded.
C32_Witness ==
    /\ Len(mlog) >= 3
    /\ LET n == Len(mlog)
       IN  /\ mlog[n].op = "try_lock" /\ mlog[n].res = "Ok"
           /\ mlog[n - 1].op = "drop" /\ mlog[n - 1].ctx # mlog[n].ctx
           /\ mlog[n - 2].res = "Ok" /\ mlog[n - 2].ctx = mlog[n - 1].ctx
           /\ guards = {mlog[n].ctx}

-----------------------------------------------------------------------------
(* The OnceCell again: failed and concurrent initialization. *)

\* Context c takes the step that runs its initializer.
OInitStep(c) ==
    c \in Active /\ ocall[c].pc = "init" /\ ocall'[c].pc # "init"

\* C34: when the initializer of get_or_try_init returns an error, the call
\* returns that error, the state is UNINIT again with nothing written (get()
\* gives None), and a get_or_try_init that then runs alone on the empty cell
\* runs its own initializer and initializes the cell with its value.
C34_FailedInitRetry ==
    [][\A c \in OnceContexts :
         /\ (OInitStep(c) /\ ocall[c].arg = 0) =>
               /\ ocall[c].op = "get_or_try_init"
               /\ ostate = LOCKED
               /\ ostate' = UNINIT
               /\ ovalue' = ovalue
               /\ OnceGet(OCur', IdleFrame).fr.res = "None"
               /\ ocall'[c].res = "Err" /\ ocall'[c].pc = "ret"
         /\ (OReturned(c) /\ ocall[c].res = "Err"
               /\ ocall[c].op = "get_or_try_init") =>
               /\ olast'.res = "Err" /\ olast'.ctx = c
               /\ ovalue' # 0 => ostate' # UNINIT
         /\ (OReturned(c) /\ olast'.op = "get_or_try_init"
               /\ olast'.arg # 0 /\ olast'.solo /\ olast'.begun = UNINIT) =>
               /\ olast'.res = "Ok" /\ olast'.val = olast'.arg
               /\ ostate' = INIT /\ ovalue' = olast'.arg
      ]_vars

\* The first call failed in its initializer; the second, begun afterwards on
\* the empty cell, has run its own initializer and written its value.
C34_Witness ==
    /\ ocount = 2
    /\ olast.op = "get_or_try_init" /\ olast.res = "Err"
    /\ \E c \in OnceContexts :
          /\ ocall[c].op = "get_or_try_init"
          /\ ocall[c].pc = "unlock"
          /\ ocall[c].solo /\ ocall[c].begun = UNINIT
          /\ ovalue = ocall[c].arg

\* The contexts between the successful exchange and the guard's store.
Initializing == {c \in Active : ocall[c].pc \in {"init", "write", "unlock"}}

\* C35: at most one context is inside the initializing section, and only
\* while the state is LOCKED; the value is written at most once; the state is
\* INIT only when the value has been written; and every call that returns a
\* value returns the one stored.
C35_SingleInit ==
    [][/\ Cardinality(Initializing) <= 1
       /\ Cardinality(Initializing') <= 1
       /\ Initializing # {} => ostate = LOCKED
       /\ ovalue # 0 => ovalue' = ovalue
       /\ ostate' = INIT => ovalue' # 0
       /\ \A c \in OnceContexts :
            (OReturned(c) /\ olast'.res \in {"Some", "Ok"}
               /\ olast'.op \notin SetOps) =>
                  /\ olast'.val # 0
                  /\ olast'.val = ovalue'
      ]_vars

\* A get_or_init that started on the empty cell lost the race: it returns
\* the other context's value, not its own.
C35_Witness ==
    /\ olast.op = "get_or_init"
    /\ olast.res = "Ok"
    /\ olast.begun = UNINIT
    /\ olast.val # olast.arg
    /\ olast.val = ovalue
    /\ ~single_core

-----------------------------------------------------------------------------
(* terminal/layouts/qwerty.rs: the scancode state machine.  A Qwerty is the
   record [modifiers, state, numlock_repeating, capslock_repeating]; the
   modifiers are the set of the names of the flags that are set; a character
   is a one-letter string, "LF", "BS" and "TAB" for the control characters
   and "None" for no character. *)

SC_LEFT_SHIFT == 42
SC_LEFT_SHIFT_BREAK == 170
SC_RIGHT_SHIFT == 54
SC_RIGHT_SHIFT_BREAK == 182
SC_CONTROL == 29
SC_CONTROL_BREAK == 157
SC_CAPS_LOCK == 58
SC_CAPS_LOCK_BREAK == 186
SC_ALT == 56
SC_ALT_BREAK == 184
SC_NUM_LOCK == 69
SC_NUM_LOCK_BREAK == 197
SC_E0 == 224
SC_A == 30
SC_L == 38
SC_C == 46
SC_KP7 == 71
SC_SPACE == 57
SC_ENTER == 28
SC_BACKSPACE == 14
SC_TAB == 15
\* A scancode the layout has no arm for.
SC_F1 == 59

\* The scancodes fed to the layout.
Scancodes == {SC_LEFT_SHIFT, SC_LEFT_SHIFT_BREAK, SC_RIGHT_SHIFT,
              SC_RIGHT_SHIFT_BREAK, SC_CONTROL, SC_CONTROL_BREAK,
              SC_CAPS_LOCK, SC_CAPS_LOCK_BREAK, SC_ALT, SC_ALT_BREAK,
              SC_NUM_LOCK, SC_NUM_LOCK_BREAK, SC_E0, SC_A, SC_L, SC_C,
              SC_KP7, SC_SPACE, SC_ENTER, SC_BACKSPACE, SC_TAB, SC_F1}

\* Modifiers::has_shift, has_control, shifted, num_locked
has_shift(m) == m \cap {"LEFT_SHIFT", "RIGHT_SHIFT"} # {}

has_control(m) == m \cap {"LEFT_CONTROL", "RIGHT_CONTROL"} # {}

shifted(m) == has_shift(m) # ("CAPS_LOCK" \in m)

num_locked(m) == "NUM_LOCK" \in m

\* Modifiers::toggle
toggle(m, flag) == IF flag \in m THEN m \ {flag} ELSE m \cup {flag}

\* The make code of a lock key that toggles on every repeat.
lock_make_always(m, repeating, flag) ==
    [repeating |-> TRUE, modifiers |-> toggle(m, flag)]

\* if !self.capslock_repeating { self.capslock_repeating = true;
\*     self.modifiers.toggle(Modifiers::CAPS_LOCK); }, and the same for NUM LOCK.
lock_make(m, repeating, flag) ==
    IF ~repeating
    THEN [repeating |-> TRUE, modifiers |-> toggle(m, flag)]
    ELSE [repeating |-> repeating, modifiers |-> m]

\* A letter key: lower case, or upper case when shifted.
Letter(m, lower, upper) == IF ~shifted(m) THEN lower ELSE upper

\* Qwerty::advance, for the scancodes of Scancodes: the layout after the
\* scancode and the character produced.
Qwerty_advance(q, scancode) ==
    LET st == q.state
        m == q.modifiers
        q1 == [q EXCEPT !.state = IF st = "Neutral" /\ scancode = SC_E0
                                  THEN "E0" ELSE "Neutral"]
        Mods(mm) == [q |-> [q1 EXCEPT !.modifiers = mm], c |-> "None"]
        Char(c) == [q |-> q1, c |-> c]
    IN  CASE st = "Neutral" /\ scancode = SC_LEFT_SHIFT ->
                Mods(m \cup {"LEFT_SHIFT"})
          [] st = "Neutral" /\ scancode = SC_LEFT_SHIFT_BREAK ->
                Mods(m \ {"LEFT_SHIFT"})
          [] st = "Neutral" /\ scancode = SC_RIGHT_SHIFT ->
                Mods(m \cup {"RIGHT_SHIFT"})
          [] st = "Neutral" /\ scancode = SC_RIGHT_SHIFT_BREAK ->
                Mods(m \ {"RIGHT_SHIFT"})
          [] st = "Neutral" /\ scancode = SC_CONTROL ->
                Mods(m \cup {"LEFT_CONTROL"})
          [] st = "Neutral" /\ scancode = SC_CONTROL_BREAK ->
                Mods(m \ {"LEFT_CONTROL"})
          [] st = "Neutral" /\ scancode = SC_CAPS_LOCK ->
                LET r == lock_make(m, q.capslock_repeating, "CAPS_LOCK")
                IN  [q |-> [q1 EXCEPT !.modifiers = r.modifiers,
                                      !.capslock_repeating = r.repeating],
                     c |-> "None"]
          [] st = "Neutral" /\ scancode = SC_CAPS_LOCK_BREAK ->
                [q |-> [q1 EXCEPT !.capslock_repeating = FALSE], c |-> "None"]
          [] st = "E0" /\ scancode = SC_CONTROL ->
                Mods(m \cup {"RIGHT_CONTROL"})
          [] st = "E0" /\ scancode = SC_CONTROL_BREAK ->
                Mods(m \ {"RIGHT_CONTROL"})
          [] st = "Neutral" /\ scancode = SC_ALT ->
                Mods(m \cup {"LEFT_ALT"})
          [] st = "Neutral" /\ scancode = SC_ALT_BREAK ->
                Mods(m \ {"LEFT_ALT"})
          [] st = "E0" /\ scancode = SC_ALT ->
                Mods(m \cup {"RIGHT_ALT"})
          [] st = "E0" /\ scancode = SC_ALT_BREAK ->
                Mods(m \ {"RIGHT_ALT"})
          [] st = "Neutral" /\ scancode = SC_NUM_LOCK ->
                LET r == lock_make(m, q.numlock_repeating, "NUM_LOCK")
                IN  [q |-> [q1 EXCEPT !.modifiers = r.modifiers,
                                      !.numlock_repeating = r.repeating],
                     c |-> "None"]
          [] st = "Neutral" /\ scancode = SC_NUM_LOCK_BREAK ->
                [q |-> [q1 EXCEPT !.numlock_repeating = FALSE], c |-> "None"]
          [] st = "Neutral" /\ scancode = SC_A -> Char(Letter(m, "a", "A"))
          [] st = "Neutral" /\ scancode = SC_L -> Char(Letter(m, "l", "L"))
          [] st = "Neutral" /\ scancode = SC_C -> Char(Letter(m, "c", "C"))
          [] st = "Neutral" /\ scancode = SC_KP7 /\ num_locked(m) -> Char("7")
          [] st = "Neutral" /\ scancode = SC_SPACE -> Char(" ")
          [] scancode = SC_ENTER -> Char("LF")
          [] st = "Neutral" /\ scancode = SC_BACKSPACE -> Char("BS")
          [] st = "Neutral" /\ scancode = SC_TAB -> Char("TAB")
          [] OTHER -> Char("None")

\* The toggles of a lock key's modifier, counted per press of the key: the
\* count starts with the first make code after a break code, and is dropped
\* at the break code.
Pressed(n, before, after, flag, make, break, st, scancode) ==
    LET toggled == IF (flag \in before) # (flag \in after) THEN 1 ELSE 0
        more == IF n + toggled > 2 THEN 2 ELSE n + toggled
    IN  CASE st = "Neutral" /\ scancode = break -> -1
          [] st = "Neutral" /\ scancode = make /\ n = -1 -> toggled
          [] n = -1 -> -1
          [] OTHER -> more

InitQwerty ==
    /\ PagingIdle
    /\ top = 0
    /\ base = 0
    /\ FramesIdle
    /\ BumpIdle
    /\ InitIdle
    /\ LaterIdle

TermFrame == UNCHANGED <<pagingVars, frameVars, bumpVars, initVars,
                         memMapVars, mutexVars, onceVars, entryVars,
                         csVars>>

\* self.layout.advance(scancode)
Advance ==
    /\ \E scancode \in Scancodes :
         LET r == Qwerty_advance(layout, scancode)
         IN  /\ layout' = r.q
             /\ press' =
                  [caps |-> Pressed(press.caps, layout.modifiers,
                                    r.q.modifiers, "CAPS_LOCK", SC_CAPS_LOCK,
                                    SC_CAPS_LOCK_BREAK, layout.state,
                                    scancode),
                   num |-> Pressed(press.num, layout.modifiers,
                                   r.q.modifiers, "NUM_LOCK", SC_NUM_LOCK,
                                   SC_NUM_LOCK_BREAK, layout.state, scancode)]
             /\ tlast' = [NoTerm EXCEPT !.op = "advance",
                                        !.scancode = scancode, !.c = r.c]
    /\ UNCHANGED <<cmdline, cmdline_cursor, scancode_buffer, tcalls>>
    /\ TermFrame

NextQwerty == Advance

SpecQwerty == InitQwerty /\ [][NextQwerty]_vars

\* C36: while a lock key is down, from its make code to its break code (both
\* outside an E0 sequence), its modifier has been toggled exactly once,
\* however often the make code is repeated; and CAPS_LOCK and NUM_LOCK change
\* at no other scancode than their key's make code.
C36_LockToggleOnce ==
    [][/\ press'.caps # -1 => press'.caps = 1
       /\ press'.num # -1 => press'.num = 1
       /\ ("CAPS_LOCK" \in layout.modifiers) # ("CAPS_LOCK" \in layout'.modifiers)
            => (tlast'.scancode = SC_CAPS_LOCK /\ layout.state = "Neutral"
                /\ press.caps = -1)
       /\ ("NUM_LOCK" \in layout.modifiers) # ("NUM_LOCK" \in layout'.modifiers)
            => (tlast'.scancode = SC_NUM_LOCK /\ layout.state = "Neutral"
                /\ press.num = -1)
       /\ (layout.state = "Neutral" /\ press.caps = -1
             /\ tlast'.scancode = SC_CAPS_LOCK)
            => ("CAPS_LOCK" \in layout.modifiers)
                  # ("CAPS_LOCK" \in layout'.modifiers)
       /\ (layout.state = "Neutral" /\ press.num = -1
             /\ tlast'.scancode = SC_NUM_LOCK)
            => ("NUM_LOCK" \in layout.modifiers)
                  # ("NUM_LOCK" \in layout'.modifiers)
      ]_vars

\* The second press of CAPS LOCK, with NUM LOCK set and released before: the
\* key is down, this press has toggled the modifier once, and it is clear.
C36_Witness ==
    /\ tlast.scancode = SC_CAPS_LOCK
    /\ layout.capslock_repeating
    /\ press.caps = 1
    /\ "CAPS_LOCK" \notin layout.modifiers
    /\ "NUM_LOCK" \in layout.modifiers
    /\ press.num = -1

-----------------------------------------------------------------------------
(* terminal/mod.rs: the command line, and ReadLineImpl of main.rs.  A
   terminal is the record [cmdline, cmdline_cursor, layout, res], res being
   "ok" until a call panics ("panic") or restarts the machine ("halt"). *)

\* drivers/vga.rs: the width of the screen, the capacity of the command line.
WIDTH == 80

\* Scancodes processed per behaviour.
MaxKeys == 4

\* n times the character c.
Repeat(c, n) == [i \in 1 .. n |-> c]

\* The command lines the terminal starts from: empty, one short of full, full.
InitLines == {Repeat("a", n) : n \in {0, WIDTH - 1, WIDTH}}

\* The scancodes typed at the terminal.
TermKeys == {SC_A, SC_SPACE, SC_L, SC_C, SC_CONTROL, SC_CONTROL_BREAK,
             SC_BACKSPACE, SC_ENTER, SC_TAB, SC_LEFT_SHIFT}

\* The list of available commands.
COMMANDS == << <<"h", "e", "l", "p">>, <<"c", "l", "e", "a", "r">>,
               <<"f", "o", "n", "t">>, <<"s", "y", "s", "t", "e", "m">>,
               <<"p", "a", "n", "i", "c">>,
               <<"r", "e", "s", "t", "a", "r", "t">> >>

TCur == [cmdline |-> cmdline, cmdline_cursor |-> cmdline_cursor,
         layout |-> layout, res |-> "ok"]

\* Terminal::reset: self.cmdline.clear(); self.cursor = 0; and the screen.
Terminal_reset(t) == [t EXCEPT !.cmdline = << >>]

\* Terminal::clear_cmdline
clear_cmdline(t) == [t EXCEPT !.cmdline = << >>, !.cmdline_cursor = 0]

\* ArrayVec::try_insert: the vector afterwards, and "Ok", "Err" (full) or
\* "panic" (index out of bounds).
ArrayVec_try_insert(v, index, value, capacity) ==
    IF ~(index <= Len(v)) THEN [res |-> "panic", v |-> v]
    ELSE IF Len(v) = capacity THEN [res |-> "Err", v |-> v]
    ELSE [res |-> "Ok",
          v |-> SubSeq(v, 1, index) \o <<value>>
                  \o SubSeq(v, index + 1, Len(v))]

\* ArrayVec::remove_range(start..end)
ArrayVec_remove_range(v, start, end) ==
    IF ~(start <= end) \/ ~(end <= Len(v)) THEN [res |-> "panic", v |-> v]
    ELSE [res |-> "Ok",
          v |-> SubSeq(v, 1, start) \o SubSeq(v, end + 1, Len(v))]

\* Terminal::type_in
type_in(t, c) ==
    LET r == ArrayVec_try_insert(t.cmdline, t.cmdline_cursor, c, WIDTH)
    IN  CASE r.res = "panic" -> [t EXCEPT !.res = "panic"]
          [] r.res = "Err" -> t
          [] OTHER -> [t EXCEPT !.cmdline = r.v,
                                !.cmdline_cursor = t.cmdline_cursor + 1]

\* The first loop of find_start_of_last_word: skip initial whitespaces.
RECURSIVE SkipSpaces(_, _)
SkipSpaces(s, i) ==
    IF i > 0
    THEN IF s[i] # " " THEN i - 1 ELSE SkipSpaces(s, i - 1)
    ELSE i

\* The second loop: skip the last word.
RECURSIVE SkipWord(_, _)
SkipWord(s, i) ==
    IF i > 0
    THEN IF s[i] = " " THEN i ELSE SkipWord(s, i - 1)
    ELSE i

\* find_start_of_last_word; s[i] of the code is s[i + 1] here.
find_start_of_last_word(s) == SkipWord(s, SkipSpaces(s, Len(s)))

\* Terminal::type_out
type_out(t, bulk) ==
    LET cur == t.cmdline_cursor
    IN  IF cur = 0 THEN t
        ELSE IF bulk /\ cur > Len(t.cmdline) THEN [t EXCEPT !.res = "panic"]
        ELSE LET start == IF bulk
                          THEN find_start_of_last_word(
                                   SubSeq(t.cmdline, 1, cur))
                          ELSE cur - 1
                 r == ArrayVec_remove_range(t.cmdline, start, cur)
             IN  IF r.res = "panic" THEN [t EXCEPT !.res = "panic"]
                 ELSE [t EXCEPT !.cmdline = r.v,
                                !.cmdline_cursor = cur - (cur - start)]

\* ReadLineImpl::submit, with the global state initialized.
submit(t) ==
    CASE t.cmdline = COMMANDS[2] -> Terminal_reset(t)
      [] t.cmdline = COMMANDS[5] -> [t EXCEPT !.res = "panic"]
      [] t.cmdline = COMMANDS[6] -> [t EXCEPT !.res = "halt"]
      [] OTHER -> t

\* candidate.as_bytes().starts_with(term.cmdline())
starts_with(candidate, prefix) ==
    /\ Len(prefix) <= Len(candidate)
    /\ SubSeq(candidate, 1, Len(prefix)) = prefix

\* The loop of ReadLineImpl::auto_complete over COMMANDS[i ..].
RECURSIVE Complete(_, _)
Complete(t, i) ==
    IF i > Len(COMMANDS) THEN t
    ELSE IF starts_with(COMMANDS[i], t.cmdline)
         THEN Complete([t EXCEPT !.cmdline = COMMANDS[i],
                                 !.cmdline_cursor = Len(COMMANDS[i])], i + 1)
         ELSE Complete(t, i + 1)

\* ReadLineImpl::auto_complete
auto_complete(t) ==
    IF t.cmdline = << >> \/ t.cmdline_cursor # Len(t.cmdline) THEN t
    ELSE Complete(t, 1)

\* Terminal::take_scancode
take_scancode(t, scancode) ==
    LET r == Qwerty_advance(t.layout, scancode)
        t1 == [t EXCEPT !.layout = r.q]
        control == has_control(r.q.modifiers)
    IN  CASE r.c = "None" -> t1
          [] r.c = "BS" -> type_out(t1, control)
          [] r.c \in {"l", "L"} /\ control -> Terminal_reset(t1)
          [] r.c \in {"c", "C"} /\ control -> clear_cmdline(t1)
          [] r.c = "LF" ->
                LET s == submit(t1)
                IN  IF s.res = "ok" THEN clear_cmdline(s) ELSE s
          [] r.c = "TAB" -> auto_complete(t1)
          [] OTHER -> type_in(t1, r.c)

\* A panic or a restart stops the kernel.
THalted == tlast.res \in {"panic", "halt"}

InitTerminal ==
    /\ PagingIdle
    /\ top = 0
    /\ base = 0
    /\ FramesIdle
    /\ BumpIdle
    /\ InitIdle
    /\ MemMapIdle
    /\ MutexIdle
    /\ OnceIdle
    /\ EntryIdle
    /\ CriticalIdle
    /\ cmdline \in InitLines
    /\ cmdline_cursor = Len(cmdline)
    /\ scancode_buffer = << >>
    /\ layout = Qwerty_new
    /\ press = NoPress
    /\ tlast = NoTerm
    /\ tcalls = 0

\* The terminal becomes t.
InstallTerm(t) ==
    /\ cmdline' = t.cmdline
    /\ cmdline_cursor' = t.cmdline_cursor
    /\ layout' = t.layout

\* term.take_scancode(scancode, &mut ReadLineImpl)
TakeScancode ==
    /\ ~THalted
    /\ tcalls < MaxKeys
    /\ \E scancode \in TermKeys :
         LET t == take_scancode(TCur, scancode)
         IN  /\ InstallTerm(t)
             /\ tlast' = [NoTerm EXCEPT !.op = "take_scancode",
                                        !.scancode = scancode, !.res = t.res]
    /\ tcalls' = tcalls + 1
    /\ UNCHANGED <<scancode_buffer, press>>
    /\ TermFrame

NextTerminal == TakeScancode

SpecTerminal == InitTerminal /\ [][NextTerminal]_vars

\* C37: whatever scancodes take_scancode has processed,
\* cmdline_cursor <= cmdline.len() <= 80, and no call has panicked.
C37_CursorInBounds ==
    /\ cmdline_cursor <= Len(cmdline)
    /\ Len(cmdline) <= WIDTH
    /\ tlast.res # "panic"

-----------------------------------------------------------------------------
(* terminal/mod.rs: the scancode buffer. *)

\* Calls made on the buffer per behaviour.
MaxBufferCalls == 4

\* The scancodes the keyboard handler buffers.
BufferKeys == {SC_A, SC_CONTROL, SC_L}

\* The buffers the terminal starts from: empty, one short of full, full.
InitBuffers == {Repeat(SC_A, n) :
                  n \in {0, ScancodeCapacity - 1, ScancodeCapacity}}

\* ArrayVec::try_push
ArrayVec_try_push(v, value, capacity) ==
    IF Len(v) = capacity THEN [res |-> "Err", v |-> v]
    ELSE [res |-> "Ok", v |-> Append(v, value)]

\* Terminal::buffer_scancode
buffer_scancode(buffer, scancode) ==
    LET r == ArrayVec_try_push(buffer, scancode, ScancodeCapacity)
    IN  [res |-> r.res = "Ok", buffer |-> r.v]

\* The loop of take_buffered_scancodes from index i on (i + 1 here), a panic
\* or a restart ending it; taken are the scancodes handed to take_scancode.
RECURSIVE TakeFrom(_, _, _, _)
TakeFrom(t, buffer, i, taken) ==
    IF i > Len(buffer) \/ t.res # "ok" THEN [t |-> t, taken |-> taken]
    ELSE TakeFrom(take_scancode(t, buffer[i]), buffer, i + 1,
                  Append(taken, buffer[i]))

\* Terminal::take_buffered_scancodes: the terminal, the buffer and the
\* scancodes processed.
take_buffered_scancodes(t, buffer) ==
    LET r == TakeFrom(t, buffer, 1, << >>)
    IN  [t |-> r.t, taken |-> r.taken,
         buffer |-> IF r.t.res = "ok" THEN << >> ELSE buffer]

InitScancodes ==
    /\ PagingIdle
    /\ top = 0
    /\ base = 0
    /\ FramesIdle
    /\ BumpIdle
    /\ InitIdle
    /\ MemMapIdle
    /\ MutexIdle
    /\ OnceIdle
    /\ EntryIdle
    /\ CriticalIdle
    /\ cmdline \in InitLines
    /\ cmdline_cursor = Len(cmdline)
    /\ scancode_buffer \in InitBuffers
    /\ layout = Qwerty_new
    /\ press = NoPress
    /\ tlast = NoTerm
    /\ tcalls = 0

\* TERMINAL.lock().buffer_scancode(ps2::read_data())
BufferScancode ==
    /\ ~THalted
    /\ tcalls < MaxBufferCalls
    /\ \E scancode \in BufferKeys :
         LET r == buffer_scancode(scancode_buffer, scancode)
         IN  /\ scancode_buffer' = r.buffer
             /\ tlast' = [NoTerm EXCEPT
                            !.op = "buffer_scancode", !.scancode = scancode,
                            !.res = IF r.res THEN "true" ELSE "false",
                            !.before = scancode_buffer]
    /\ tcalls' = tcalls + 1
    /\ UNCHANGED <<cmdline, cmdline_cursor, layout, press>>
    /\ TermFrame

\* TERMINAL.lock().take_buffered_scancodes(&mut ReadLineImpl)
TakeBufferedScancodes ==
    /\ ~THalted
    /\ tcalls < MaxBufferCalls
    /\ LET r == take_buffered_scancodes(TCur, scancode_buffer)
       IN  /\ InstallTerm(r.t)
           /\ scancode_buffer' = r.buffer
           /\ tlast' = [NoTerm EXCEPT
                          !.op = "take_buffered_scancodes", !.res = r.t.res,
                          !.before = scancode_buffer, !.taken = r.taken]
    /\ tcalls' = tcalls + 1
    /\ UNCHANGED press
    /\ TermFrame

NextScancodes == BufferScancode \/ TakeBufferedScancodes

SpecScancodes == InitScancodes /\ [][NextScancodes]_vars

\* The step is a call on the scancode buffer.
TCalled == tcalls' = tcalls + 1

\* C38: the buffer never holds more than 8 scancodes; buffer_scancode
\* appends the scancode and returns true, or, on a full buffer, returns false
\* and leaves the buffer unchanged; take_buffered_scancodes hands the
\* buffered scancodes to take_scancode in arrival order, each exactly once,
\* and leaves the buffer empty.
C38_BoundedFifo ==
    [][/\ Len(scancode_buffer) <= ScancodeCapacity
       /\ Len(scancode_buffer') <= ScancodeCapacity
       /\ (TCalled /\ tlast'.op = "buffer_scancode") =>
            IF Len(scancode_buffer) = ScancodeCapacity
            THEN tlast'.res = "false" /\ scancode_buffer' = scancode_buffer
            ELSE /\ tlast'.res = "true"
                 /\ scancode_buffer' = Append(scancode_buffer, tlast'.scancode)
       /\ (TCalled /\ tlast'.op = "take_buffered_scancodes") =>
            /\ tlast'.taken = scancode_buffer
            /\ scancode_buffer' = << >>
      ]_vars

-----------------------------------------------------------------------------
(* utility/critical_section.rs: RestoreInterrupts.  A critical section is   *)
(* the lifetime of the result of without_interrupts(); sections nest as     *)
(* scopes do, so results are dropped innermost first.  Interrupt handlers   *)
(* are entered through interrupt gates: the CPU saves the flags and clears  *)
(* the interrupt flag, and iret restores them.                              *)

\* Live results and interrupt frames at a time.
MaxDepth == 3

\* Critical-section steps per behaviour.
MaxSectionCalls == 8

\* without_interrupts() that disables interrupts and always returns Some.
without_interrupts_always(flag) ==
    [res |-> "Some", flag |-> FALSE]

\* RestoreInterrupts::without_interrupts(): with the flag set, cli() and
\* Some(Self); else None.
without_interrupts(flag) ==
    IF flag
    THEN [res |-> "Some", flag |-> FALSE]
    ELSE [res |-> "None", flag |-> flag]

\* Dropping an Option<RestoreInterrupts>: Drop for RestoreInterrupts is sti();
\* dropping None does nothing.
RestoreInterrupts_drop(res, flag) ==
    IF res = "Some" THEN TRUE ELSE flag

\* The results of without_interrupts() that are live.
Guards(s) == {i \in 1 .. Len(s) : s[i].res \in {"Some", "None"}}

InitCritical ==
    /\ PagingIdle
    /\ top = 0
    /\ base = 0
    /\ FramesIdle
    /\ BumpIdle
    /\ InitIdle
    /\ MemMapIdle
    /\ MutexIdle
    /\ OnceIdle
    /\ EntryIdle
    /\ TermIdle
    /\ rflags_interrupt \in BOOLEAN
    /\ sections = << >>
    /\ cslast = NoSection
    /\ cscalls = 0

CriticalFrame == UNCHANGED <<pagingVars, frameVars, bumpVars, initVars,
                             memMapVars, mutexVars, onceVars, entryVars,
                             termVars>>

\* The step op returned res, with the flag at before when it began.
SectionStep(op, res) ==
    /\ cscalls < MaxSectionCalls
    /\ cscalls' = cscalls + 1
    /\ cslast' = [op |-> op, res |-> res, before |-> rflags_interrupt]

\* let guard = RestoreInterrupts::without_interrupts();
WithoutInterrupts ==
    /\ Len(sections) < MaxDepth
    /\ LET r == without_interrupts(rflags_interrupt)
       IN  /\ rflags_interrupt' = r.flag
           /\ sections' = Append(sections, [res |-> r.res,
                                            before |-> rflags_interrupt])
           /\ SectionStep("without_interrupts", r.res)
    /\ CriticalFrame

\* The innermost live result goes out of scope.
DropSection ==
    /\ sections # << >>
    /\ LET g == sections[Len(sections)]
       IN  /\ g.res \in {"Some", "None"}
           /\ rflags_interrupt' = RestoreInterrupts_drop(g.res,
                                                         rflags_interrupt)
           /\ sections' = SubSeq(sections, 1, Len(sections) - 1)
           /\ SectionStep("drop", g.res)
    /\ CriticalFrame

\* An interrupt is delivered through an interrupt gate: only with the flag
\* set; the flags are saved and the flag is cleared for the handler.
Interrupt ==
    /\ rflags_interrupt
    /\ Len(sections) < MaxDepth
    /\ rflags_interrupt' = FALSE
    /\ sections' = Append(sections, [res |-> "irq",
                                     before |-> rflags_interrupt])
    /\ SectionStep("interrupt", "irq")
    /\ CriticalFrame

\* The handler returns: iret restores the saved flags.
Iret ==
    /\ sections # << >>
    /\ LET f == sections[Len(sections)]
       IN  /\ f.res = "irq"
           /\ rflags_interrupt' = f.before
           /\ sections' = SubSeq(sections, 1, Len(sections) - 1)
           /\ SectionStep("iret", "irq")
    /\ CriticalFrame

\* cli() or sti() of code that is in no critical section and in no handler.
SetFlag ==
    /\ sections = << >>
    /\ \E flag \in BOOLEAN :
         /\ rflags_interrupt' = flag
         /\ SectionStep(IF flag THEN "sti" ELSE "cli", "none")
    /\ UNCHANGED sections
    /\ CriticalFrame

NextCritical ==
    \/ WithoutInterrupts
    \/ DropSection
    \/ Interrupt
    \/ Iret
    \/ SetFlag

SpecCritical == InitCritical /\ [][NextCritical]_vars

\* The step is a critical-section step of the given kind.
SectionOp(op) == cscalls' = cscalls + 1 /\ cslast'.op = op

\* C40: without_interrupts leaves interrupts disabled on return; when its
\* result is dropped the interrupt flag equals its value before the call;
\* with nested sections the inner call returns None, and interrupts are
\* re-enabled only by the drop of the outermost result, never while a result
\* is still live.
C40_RestoreFlag ==
    [][/\ SectionOp("without_interrupts") =>
            /\ ~rflags_interrupt'
            /\ (Guards(sections) # {} => cslast'.res = "None")
       /\ SectionOp("drop") =>
            rflags_interrupt' = sections[Len(sections)].before
       /\ (Guards(sections) # {} /\ rflags_interrupt') =>
            /\ SectionOp("drop")
            /\ Guards(sections') = {}
      ]_vars

\* A section entered with interrupts enabled holds a nested section, the
\* nested result has just been dropped and interrupts are still disabled.
C40_Witness ==
    /\ cslast.op = "drop"
    /\ cslast.res = "None"
    /\ Len(sections) = 1
    /\ sections[1] = [res |-> "Some", before |-> TRUE]
    /\ ~rflags_interrupt

\* The shape of the paging variables under Spec.
TypeOK ==
    /\ garbage \in GarbageWords
    /\ phase \in {"boot", "ready", "failed", "halted"}
    /\ top \in 0 .. ArenaTop
    /\ base <= top
    /\ nops \in 0 .. MaxOps
    /\ overflow_checks \in BOOLEAN

====
